---- MODULE Spec2Model ----
(***************************************************************************)
(* Model of the swarm-tools control plane (lazerusrm/Swarm-Tools).         *)
(*                                                                         *)
(* Part 1: the loop detector (src/src/loop_detector.rs).  The detector     *)
(* keeps no loop state in memory: every call reloads the agent's JSON      *)
(* documents from disk, changes them and writes them back.  The model's    *)
(* state is therefore the file system (files), the LoopDetector instance   *)
(* (detector: thresholds only) and the outcome of the latest call (last).  *)
(* A prompt is the sequence of its whitespace-separated words.             *)
(***************************************************************************)
EXTENDS Integers, Sequences, FiniteSets, TLC

VARIABLES
    files,      \* path -> document; DOMAIN files = the files that exist
    detector,   \* the LoopDetector instance (struct fields)
    last,       \* the latest call: operation, arguments, result, I/O done
    log,        \* the calls made so far, oldest first (history variable)
    solo,       \* agent -> the file system had only that agent made calls
    files2,     \* the file system of the replayed run
    detector2,  \* the LoopDetector instance of the replayed run
    last2,      \* the latest call of the replayed run
    pc,         \* process -> position inside check_exact_loop
    local,      \* process -> its local variables (hashes, count)
    returned,   \* process -> what its check_exact_loop call returned
    sim,        \* the latest similarity computation: arguments and values
    monitor,    \* the EnhancedMonitor instance (struct fields)
    monitor0,   \* the EnhancedMonitor instance at the start (history variable)
    mlog,       \* the monitor calls made so far, oldest first (history variable)
    compressor  \* the TrajectoryCompressor instance (struct fields)

vars == <<files, detector, last, log, solo, files2, detector2, last2,
          pc, local, returned, sim, monitor, monitor0, mlog,
                   compressor>>

----------------------------------------------------------------------------
(* Bounds of the model *)

MaxCallsExact == 6
MaxCallsOsc == 6
OscCallsBefore == 18
MaxCallsAll == 6
MaxCallsOrder == 5
MaxCallsAgents == 4
MaxCallsFault == 3
MaxCallsReplay == 3
MaxCallsRace == 4
MaxCallsCorrupt == 3
MaxPersisted == 2
MaxOscThreshold == 3
MaxClock == 1

(* Program constants *)

PromptHistoryCap == 50
StateHistoryCap == 20
SimilarityThresholdPct == 85

----------------------------------------------------------------------------
(* Inputs *)

P1 == <<"a", "b">>
P2 == <<"b", "a">>
P3 == <<"A", "b">>
Q1 == <<"c">>
Empty == <<>>

Agents == {"agent1", "agent2"}

Clock == 0..MaxClock

NoFaults == {}

----------------------------------------------------------------------------
(* types.rs *)

LoopDetection_swapped(detection_type, agent_id, loop_count, prompt_hash, timestamp) ==
    [kind |-> "Some", detection_type |-> detection_type, agent_id |-> agent_id,
     loop_count |-> loop_count, prompt_hash |-> timestamp,
     timestamp |-> prompt_hash]

SwarmConfig_default ==
    [loop_exact_threshold |-> 3,
     loop_semantic_threshold |-> 5,
     loop_state_oscillation_threshold |-> 3]

None ==
    [kind |-> "None", detection_type |-> "", agent_id |-> "",
     loop_count |-> 0, prompt_hash |-> <<>>, timestamp |-> 0]

Err ==
    [kind |-> "Err", detection_type |-> "", agent_id |-> "",
     loop_count |-> 0, prompt_hash |-> <<>>, timestamp |-> 0]

LoopDetection(detection_type, agent_id, loop_count, prompt_hash, timestamp) ==
    [kind |-> "Some", detection_type |-> detection_type, agent_id |-> agent_id,
     loop_count |-> loop_count, prompt_hash |-> prompt_hash,
     timestamp |-> timestamp]

----------------------------------------------------------------------------
(* LoopDetector::new: SemanticEngine::new() is never initialized, so        *)
(* is_loaded() is false and the detector uses the Jaccard fallback.        *)

(* semantic_engine.rs.  An engine is modelled by whether a model is loaded,  *)
(* the texts on which its embed() fails, and the cosine similarity of the  *)
(* embeddings it computes (a fraction num/den between -1 and 1).           *)

SemanticEngine_new ==
    [loaded |-> FALSE, failing |-> {}, cosine |-> [num |-> 0, den |-> 1]]

is_loaded(engine) == engine.loaded

(* embed: the built-in fallback embedding never fails *)
embed(engine, text) ==
    IF ~is_loaded(engine) THEN "Ok"
    ELSE IF text \in engine.failing THEN "Err" ELSE "Ok"

with_semantic_engine(config, semantic_engine) ==
    [exact_loop_threshold |-> config.loop_exact_threshold,
     semantic_loop_threshold |-> config.loop_semantic_threshold,
     state_oscillation_threshold |-> config.loop_state_oscillation_threshold,
     semantic_similarity_threshold |-> SimilarityThresholdPct,
     base_dir |-> ".claude/swarm-tools",
     semantic_engine |-> semantic_engine,
     use_semantic |-> is_loaded(semantic_engine)]

LoopDetector_new(config) ==
    [exact_loop_threshold |-> config.loop_exact_threshold,
     semantic_loop_threshold |-> config.loop_semantic_threshold,
     state_oscillation_threshold |-> config.loop_state_oscillation_threshold,
     semantic_similarity_threshold |-> SimilarityThresholdPct,
     base_dir |-> ".claude/swarm-tools",
     semantic_engine |-> SemanticEngine_new,
     use_semantic |-> is_loaded(SemanticEngine_new)]

(* SHA-256 is modelled as injective: the digest names the prompt hashed. *)
hash_prompt(prompt) == <<"sha256", prompt>>

get_prompt_hashes_path_shared(d, agent_id) ==
    <<d.base_dir, "loop-detector", "hashes.json">>

get_prompt_hashes_path(d, agent_id) ==
    <<d.base_dir, "loop-detector", agent_id \o "_hashes.json">>

get_prompt_history_path(d, agent_id) ==
    <<d.base_dir, "loop-detector", agent_id \o "_history.json">>

get_state_history_path(d, agent_id) ==
    <<d.base_dir, "loop-detector", agent_id \o "_state.json">>

----------------------------------------------------------------------------
(* std::fs.  faulty is the set of <<operation, path>> that fail during the *)
(* call; io is the set of operations a step attempted.                     *)

fs_read(fsys, faulty, path) ==
    IF <<"read", path>> \in faulty
    THEN [ok |-> FALSE, val |-> <<>>, io |-> {<<"read", path>>}]
    ELSE [ok |-> TRUE, val |-> fsys[path], io |-> {<<"read", path>>}]

fs_write(fsys, faulty, path, content) ==
    IF <<"write", path>> \in faulty
    THEN [ok |-> FALSE, files |-> fsys, io |-> {<<"write", path>>}]
    ELSE [ok |-> TRUE,
          files |-> [p \in DOMAIN fsys \cup {path} |->
                        IF p = path THEN content ELSE fsys[p]],
          io |-> {<<"write", path>>}]

load_file_or_default(fsys, faulty, path) ==
    IF path \in DOMAIN fsys
    THEN LET r == fs_read(fsys, faulty, path)
         IN [ok |-> TRUE, val |-> IF r.ok THEN r.val ELSE <<>>, io |-> r.io]
    ELSE [ok |-> TRUE, val |-> <<>>, io |-> {}]

(* serde_json::from_str(&content)?: <<"parse", path>> \in faulty says that  *)
(* the text of the file at path is not a JSON document of the expected     *)
(* type; the parse error is returned to the caller                         *)
from_str(faulty, path, r) ==
    IF r.ok
    THEN IF <<"parse", path>> \in faulty
         THEN [ok |-> FALSE, val |-> <<>>, io |-> r.io \cup {<<"parse", path>>}]
         ELSE [ok |-> TRUE, val |-> r.val, io |-> r.io \cup {<<"parse", path>>}]
    ELSE r

(* `if path.exists() { read_to_string(&path)? ; from_str(..)? } else      *)
(* { empty }`; path.exists() is taken to report the file's presence       *)
load_file(fsys, faulty, path) ==
    IF path \in DOMAIN fsys
    THEN from_str(faulty, path, fs_read(fsys, faulty, path))
    ELSE [ok |-> TRUE, val |-> <<>>, io |-> {}]

load_hashes(d, fsys, faulty, agent_id) ==
    load_file(fsys, faulty, get_prompt_hashes_path(d, agent_id))

save_hashes(d, fsys, faulty, agent_id, hashes) ==
    fs_write(fsys, faulty, get_prompt_hashes_path(d, agent_id), hashes)

load_prompt_history(d, fsys, faulty, agent_id) ==
    load_file(fsys, faulty, get_prompt_history_path(d, agent_id))

save_prompt_history(d, fsys, faulty, agent_id, history) ==
    fs_write(fsys, faulty, get_prompt_history_path(d, agent_id), history)

load_state_history(d, fsys, faulty, agent_id) ==
    load_file(fsys, faulty, get_state_history_path(d, agent_id))

save_state_history(d, fsys, faulty, agent_id, history) ==
    fs_write(fsys, faulty, get_state_history_path(d, agent_id), history)

----------------------------------------------------------------------------
(* HashMap::get(..).copied().unwrap_or(0) and HashMap::insert *)

HashCount(hashes, h) == IF h \in DOMAIN hashes THEN hashes[h] ELSE 0

HashInsert(hashes, h, n) ==
    [k \in DOMAIN hashes \cup {h} |-> IF k = h THEN n ELSE hashes[k]]

(* A bounded history that drops the arriving entry once it is full *)
PushEvictNewest(history, x, cap) ==
    IF Len(history) >= cap THEN history ELSE Append(history, x)

(* Vec::push followed by remove(0) when the length exceeds cap *)
PushCapped(history, x, cap) ==
    LET pushed == Append(history, x)
    IN IF Len(pushed) > cap THEN Tail(pushed) ELSE pushed

----------------------------------------------------------------------------
(* check_exact_loop *)

exact_fires_late(count, threshold) == count >= threshold

exact_fires_once(count, threshold) == count + 1 = threshold

(* the comparison `count + 1 >= self.exact_loop_threshold` *)
exact_fires(count, threshold) == count + 1 >= threshold

check_exact_loop(d, fsys, faulty, now, agent_id, prompt) ==
    LET prompt_hash == hash_prompt(prompt)
        l == load_hashes(d, fsys, faulty, agent_id)
    IN IF ~l.ok
       THEN [files |-> fsys, ret |-> Err, io |-> l.io]
       ELSE
         LET count == HashCount(l.val, prompt_hash)
             hashes == HashInsert(l.val, prompt_hash, count + 1)
             s == save_hashes(d, fsys, faulty, agent_id, hashes)
         IN IF ~s.ok
            THEN [files |-> s.files, ret |-> Err, io |-> l.io \cup s.io]
            ELSE [files |-> s.files,
                  ret |-> IF exact_fires(count, d.exact_loop_threshold)
                          THEN LoopDetection("ExactLoop", agent_id, count + 1,
                                             prompt_hash, now)
                          ELSE None,
                  io |-> l.io \cup s.io]

----------------------------------------------------------------------------
(* jaccard_similarity: |common words| / |all words| over the lower-cased   *)
(* words, as the fraction num/den (0/1 when either prompt has no word)     *)

to_lowercase(word) ==
    CASE word = "A" -> "a"
      [] word = "B" -> "b"
      [] word = "C" -> "c"
      [] word = "Failed" -> "failed"
      [] word = "Updated" -> "updated"
      [] OTHER -> word

WordSet(prompt) == {to_lowercase(prompt[i]) : i \in 1..Len(prompt)}

jaccard_unguarded(prompt1, prompt2) ==
    [num |-> Cardinality(WordSet(prompt1) \cap WordSet(prompt2)),
     den |-> Cardinality(WordSet(prompt1) \cup WordSet(prompt2))]

jaccard_similarity(prompt1, prompt2) ==
    LET words1 == WordSet(prompt1)
        words2 == WordSet(prompt2)
    IN IF words1 = {} \/ words2 = {}
       THEN [num |-> 0, den |-> 1]
       ELSE [num |-> Cardinality(words1 \cap words2),
             den |-> Cardinality(words1 \cup words2)]

(* use_semantic is false in every detector LoopDetector::new builds *)
semantic_similarity(d, prompt1, prompt2) ==
    IF ~d.use_semantic
    THEN jaccard_similarity(prompt1, prompt2)
    ELSE IF embed(d.semantic_engine, prompt1) = "Err"
         THEN jaccard_similarity(prompt1, prompt2)
         ELSE IF embed(d.semantic_engine, prompt2) = "Err"
              THEN jaccard_similarity(prompt1, prompt2)
              ELSE d.semantic_engine.cosine

(* similarity > threshold, the threshold being a percentage *)
exceeds(similarity, threshold_pct) ==
    similarity.num * 100 > threshold_pct * similarity.den

----------------------------------------------------------------------------
(* check_semantic_loop *)

(* history.iter().rev().take(n): the indices of the n most recent entries *)
RecentIndices(history, n) ==
    {i \in 1..Len(history) : i > Len(history) - n}

check_semantic_loop(d, fsys, faulty, now, agent_id, prompt) ==
    LET l == load_prompt_history(d, fsys, faulty, agent_id)
    IN IF ~l.ok
       THEN [files |-> fsys, ret |-> Err, io |-> l.io]
       ELSE
         LET history == l.val
             similarity_count ==
                 Cardinality({i \in RecentIndices(history,
                                                  d.semantic_loop_threshold) :
                     exceeds(semantic_similarity(d, prompt, history[i]),
                             d.semantic_similarity_threshold)})
         IN [files |-> fsys,
             ret |-> IF similarity_count >= d.semantic_loop_threshold
                     THEN LoopDetection("SemanticLoop", agent_id,
                                        similarity_count, hash_prompt(prompt),
                                        now)
                     ELSE None,
             io |-> l.io]

----------------------------------------------------------------------------
(* check_state_oscillation *)

oscillates_two_labels(history, threshold) ==
    /\ Len(history) >= threshold * 2
    /\ LET recent == SubSeq(history, Len(history) - threshold * 2 + 1,
                            Len(history))
       IN Cardinality({recent[i] : i \in 1..Len(recent)}) = 2

(* lines 252-265: the most recent 2 * threshold labels, split by position  *)
(* (step_by(2) from the first and from the second element)                 *)
oscillates(history, threshold) ==
    /\ Len(history) >= threshold * 2
    /\ LET recent == SubSeq(history, Len(history) - threshold * 2 + 1,
                            Len(history))
           odd_states == [i \in 1..threshold |-> recent[2 * i - 1]]
           even_states == [i \in 1..threshold |-> recent[2 * i]]
           odd_set == {odd_states[i] : i \in 1..threshold}
           even_set == {even_states[i] : i \in 1..threshold}
       IN /\ Cardinality(odd_set) = 1
          /\ Cardinality(even_set) = 1
          /\ odd_states[1] # even_states[1]

check_state_oscillation(d, fsys, faulty, now, agent_id, state) ==
    LET l == load_state_history(d, fsys, faulty, agent_id)
    IN IF ~l.ok
       THEN [files |-> fsys, ret |-> Err, io |-> l.io]
       ELSE
         LET history == PushCapped(l.val, state, StateHistoryCap)
             s == save_state_history(d, fsys, faulty, agent_id, history)
         IN IF ~s.ok
            THEN [files |-> s.files, ret |-> Err, io |-> l.io \cup s.io]
            ELSE [files |-> s.files,
                  ret |-> IF oscillates(history, d.state_oscillation_threshold)
                          THEN LoopDetection("StateOscillation", agent_id,
                                             d.state_oscillation_threshold,
                                             <<>>, now)
                          ELSE None,
                  io |-> l.io \cup s.io]

----------------------------------------------------------------------------
(* check_all_loops *)

(* lines 287-292: load, push, cap and save the prompt history *)
record_prompt(d, fsys, faulty, agent_id, prompt) ==
    LET l == load_prompt_history(d, fsys, faulty, agent_id)
    IN IF ~l.ok
       THEN [ok |-> FALSE, files |-> fsys, io |-> l.io]
       ELSE LET s == save_prompt_history(d, fsys, faulty, agent_id,
                         PushCapped(l.val, prompt, PromptHistoryCap))
            IN [ok |-> s.ok, files |-> s.files, io |-> l.io \cup s.io]

(* lines 294-299: load, push, cap and save the state history *)
record_state(d, fsys, faulty, agent_id, state) ==
    LET l == load_state_history(d, fsys, faulty, agent_id)
    IN IF ~l.ok
       THEN [ok |-> FALSE, files |-> fsys, io |-> l.io]
       ELSE LET s == save_state_history(d, fsys, faulty, agent_id,
                         PushCapped(l.val, state, StateHistoryCap))
            IN [ok |-> s.ok, files |-> s.files, io |-> l.io \cup s.io]

run_checks_semantic_first(d, fsys, faulty, now, agent_id, prompt, state) ==
    LET m == check_semantic_loop(d, fsys, faulty, now, agent_id, prompt)
    IN IF m.ret # None
       THEN m
       ELSE
         LET e == check_exact_loop(d, m.files, faulty, now, agent_id, prompt)
         IN IF e.ret # None
            THEN [files |-> e.files, ret |-> e.ret, io |-> m.io \cup e.io]
            ELSE
              LET o == check_state_oscillation(d, e.files, faulty, now,
                                               agent_id, state)
              IN [files |-> o.files, ret |-> o.ret,
                  io |-> m.io \cup e.io \cup o.io]

(* lines 301-313: the three checks in order; `?` returns an error at once, *)
(* a detection returns at once, otherwise the next check runs              *)
run_checks(d, fsys, faulty, now, agent_id, prompt, state) ==
    LET e == check_exact_loop(d, fsys, faulty, now, agent_id, prompt)
    IN IF e.ret # None
       THEN e
       ELSE
         LET m == check_semantic_loop(d, e.files, faulty, now, agent_id,
                                      prompt)
         IN IF m.ret # None
            THEN [files |-> m.files, ret |-> m.ret, io |-> e.io \cup m.io]
            ELSE
              LET o == check_state_oscillation(d, m.files, faulty, now,
                                               agent_id, state)
              IN [files |-> o.files, ret |-> o.ret,
                  io |-> e.io \cup m.io \cup o.io]

check_all_loops(d, fsys, faulty, now, agent_id, prompt, state) ==
    LET p == record_prompt(d, fsys, faulty, agent_id, prompt)
    IN IF ~p.ok
       THEN [files |-> p.files, ret |-> Err, io |-> p.io]
       ELSE
         LET q == record_state(d, p.files, faulty, agent_id, state)
         IN IF ~q.ok
            THEN [files |-> q.files, ret |-> Err, io |-> p.io \cup q.io]
            ELSE
              LET c == run_checks(d, q.files, faulty, now, agent_id, prompt,
                                  state)
              IN [files |-> c.files, ret |-> c.ret,
                  io |-> p.io \cup q.io \cup c.io]

----------------------------------------------------------------------------
(* enhanced_monitor.rs.  Token counts, budgets and timestamps are          *)
(* integers.  Contributions and context percentages are f64 in the code;   *)
(* the model holds them in hundredths (contribution 30 is 0.30) and draws  *)
(* contributions from the multiples of 0.25, which f64 holds exactly, so   *)
(* that sums, means and comparisons are the ones the code computes.  A     *)
(* quotient the code compares is kept as the fraction num/den.  A HashMap  *)
(* is a function on its keys.                                              *)

TokenHistoryCap == 100
ContextHistoryCap == 1000
ContextTrendCap == 100
UsageHistoryCap == 10
RateWindow == 10
PruneWindow == 5
HighContributionPct == 70
ReservePct == 15

SwarmBudget_default ==
    [total_budget |-> 200000, allocated |-> <<>>, safety_reserve |-> 30000,
     min_per_agent |-> 10000]

with_auto_reduce(total_context, auto_reduce, reduction_percent, threshold) ==
    [total_context |-> total_context,
     agent_token_history |-> <<>>,
     agent_token_rates |-> <<>>,
     loop_detection_rates |-> <<>>,
     intervention_success_rates |-> <<>>,
     scope_adjustment_frequencies |-> <<>>,
     context_percentage_history |-> <<>>,
     compaction_events |-> <<>>,
     agent_failures |-> <<>>,
     context_trend |-> <<>>,
     context_threshold |-> 70,
     variance_threshold |-> 2,
     acceleration_threshold |-> 1000,
     budget |-> SwarmBudget_default,
     agent_usage_history |-> <<>>,
     turn_counter |-> 0,
     auto_reduce_low_contrib |-> auto_reduce,
     low_contrib_reduction_percent |-> reduction_percent,
     pruning_contribution_threshold |-> threshold]

EnhancedMonitor_new(total_context) ==
    with_auto_reduce(total_context, FALSE, 20, 30)

(* HashMap::get(..) on a map of histories, an absent key read as empty *)
HistoryOf(map, agent_id) ==
    IF agent_id \in DOMAIN map THEN map[agent_id] ELSE <<>>

RECURSIVE SumOf(_)
SumOf(seq) == IF seq = <<>> THEN 0 ELSE seq[1] + SumOf(Tail(seq))

(* the last n elements of a slice (all of them when there are fewer) *)
Recent(seq, n) ==
    IF Len(seq) >= n THEN SubSeq(seq, Len(seq) - n + 1, Len(seq)) ELSE seq

(* record_token_usage.  `last.tokens - first.tokens` is a usize            *)
(* subtraction: when the later sample has fewer tokens it panics in a      *)
(* build with overflow checks and wraps around otherwise (wrapped: the     *)
(* rate's numerator is then 2^64 + num).                                   *)
record_token_usage(m, agent_id, tokens, ts, overflow_checks) ==
    LET history == PushCapped(HistoryOf(m.agent_token_history, agent_id),
                              [tokens |-> tokens, timestamp |-> ts],
                              TokenHistoryCap)
        pushed == [m EXCEPT !.agent_token_history =
                               HashInsert(@, agent_id, history)]
        recent == Recent(history, RateWindow)
        first == recent[1]
        last_ == recent[Len(recent)]
        time_span == last_.timestamp - first.timestamp
    IN IF Len(history) >= 2 /\ time_span > 0
       THEN IF last_.tokens < first.tokens /\ overflow_checks
            THEN [monitor |-> pushed, panic |-> TRUE]
            ELSE [monitor |->
                     [pushed EXCEPT !.agent_token_rates =
                         HashInsert(@, agent_id,
                                    [num |-> last_.tokens - first.tokens,
                                     den |-> time_span,
                                     wrapped |-> last_.tokens < first.tokens])],
                  panic |-> FALSE]
       ELSE [monitor |-> pushed, panic |-> FALSE]

record_context_percentage(m, percentage, ts) ==
    [m EXCEPT
        !.context_percentage_history =
            PushCapped(@, [percentage |-> percentage, timestamp |-> ts],
                       ContextHistoryCap),
        !.context_trend = PushCapped(@, percentage, ContextTrendCap)]

record_loop_detection(m, agent_id, ts) ==
    [m EXCEPT !.loop_detection_rates =
        HashInsert(@, agent_id,
                   Append(HistoryOf(@, agent_id), [timestamp |-> ts]))]

record_intervention(m, agent_id, success, ts) ==
    [m EXCEPT !.intervention_success_rates =
        HashInsert(@, agent_id,
                   Append(HistoryOf(@, agent_id),
                          [success |-> success, timestamp |-> ts]))]

record_scope_adjustment(m, agent_id, ts) ==
    [m EXCEPT !.scope_adjustment_frequencies =
        HashInsert(@, agent_id,
                   Append(HistoryOf(@, agent_id), [timestamp |-> ts]))]

record_compaction(m, ts) ==
    [m EXCEPT !.compaction_events = Append(@, [timestamp |-> ts])]

record_agent_failure(m, agent_id, error_type, ts) ==
    [m EXCEPT !.agent_failures =
        HashInsert(@, agent_id,
                   Append(HistoryOf(@, agent_id),
                          [error_type |-> error_type, timestamp |-> ts]))]

----------------------------------------------------------------------------
(* impl ResourceManager for EnhancedMonitor *)

safety_reserve_rounded(total) == (total * ReservePct + 50) \div 100

(* `(total as f64 * 0.15) as u32`: the cast truncates, and the f64 product *)
(* of a u32 by 0.15 truncates to the integer part of 15 * total / 100      *)
safety_reserve(total) == (total * ReservePct) \div 100

new_resource_manager(total_budget) ==
    [EnhancedMonitor_new(total_budget) EXCEPT
        !.budget = [total_budget |-> total_budget, allocated |-> <<>>,
                    safety_reserve |-> safety_reserve(total_budget),
                    min_per_agent |-> 10000]]

track_usage(m, agent_id, tokens_used, contribution, tasks_completed) ==
    [m EXCEPT
        !.agent_usage_history =
            HashInsert(@, agent_id,
                       PushCapped(HistoryOf(@, agent_id),
                                  [turn_number |-> m.turn_counter,
                                   contribution |-> contribution,
                                   tokens_used |-> tokens_used,
                                   tasks_completed |-> tasks_completed],
                                  UsageHistoryCap)),
        !.turn_counter = @ + 1]

Contributions(turns) == [i \in 1..Len(turns) |-> turns[i].contribution]

TokensUsed(turns) == [i \in 1..Len(turns) |-> turns[i].tokens_used]

(* the latest contribution of every tracked agent *)
LatestContributions(m, order) ==
    [i \in 1..Len(order) |->
        LET turns == m.agent_usage_history[order[i]]
        IN turns[Len(turns)].contribution]

(* An imbalance check that also fires at a coefficient of exactly 0.2 *)
check_imbalance_from_threshold(m, order) ==
    LET contributions == LatestContributions(m, order)
        n == Len(contributions)
        s == SumOf(contributions)
        q == SumOf([i \in 1..n |-> contributions[i] * contributions[i]])
    IN IF n < 2 THEN FALSE
       ELSE IF s > 0 THEN (n * q - s * s) * 25 >= s * s ELSE FALSE

(* check_imbalance: coefficient of variation > 0.2, that is                *)
(* variance > 0.04 * mean^2; with n values of sum s and sum of squares q   *)
(* the variance is (n * q - s^2) / n^2 and the mean is s / n               *)
check_imbalance(m, order) ==
    LET contributions == LatestContributions(m, order)
        n == Len(contributions)
        s == SumOf(contributions)
        q == SumOf([i \in 1..n |-> contributions[i] * contributions[i]])
    IN IF n < 2 THEN FALSE
       ELSE IF s > 0 THEN (n * q - s * s) * 25 > s * s ELSE FALSE

(* lines 898-902: the mean contribution of an agent's recorded turns *)
avg_contribution(turns) ==
    IF turns # <<>>
    THEN [num |-> SumOf(Contributions(turns)), den |-> Len(turns)]
    ELSE [num |-> 50, den |-> 1]

Below(frac, pct) == frac.num < pct * frac.den

Above(frac, pct) == frac.num > pct * frac.den

(* The orders in which a HashMap with these keys may be iterated *)
Orders(keys) ==
    {o \in [1..Cardinality(keys) -> keys] :
        \A i, j \in 1..Cardinality(keys) : i # j => o[i] # o[j]}

IndexIn(order, id) == CHOOSE i \in 1..Len(order) : order[i] = id

(* Vec::sort_by(|a, b| b.1.partial_cmp(&a.1).unwrap()): a stable sort by   *)
(* descending mean contribution of the entries taken in iteration order    *)
sort_by(order, contribution) ==
    CHOOSE s \in Orders({order[i] : i \in 1..Len(order)}) :
        \A i, j \in 1..Len(s) :
            i < j =>
                LET a == contribution[s[i]]
                    b == contribution[s[j]]
                IN \/ a.num * b.den > b.num * a.den
                   \/ /\ a.num * b.den = b.num * a.den
                      /\ IndexIn(order, s[i]) < IndexIn(order, s[j])

Note(kind, agent_id) == [kind |-> kind, agent_id |-> agent_id]

(* lines 918-938: the note, if any, pushed for one agent *)
NotesFor(m, id, contribution) ==
    IF Below(contribution, m.pruning_contribution_threshold)
    THEN IF m.auto_reduce_low_contrib
         THEN <<Note("Reduced budget", id)>>
         ELSE <<Note("Potential prune", id)>>
    ELSE IF Above(contribution, HighContributionPct)
         THEN <<Note("High contributor", id)>>
         ELSE <<>>

RECURSIVE Adjustments(_, _, _)
Adjustments(m, ids, contribution) ==
    IF ids = <<>> THEN <<>>
    ELSE NotesFor(m, ids[1], contribution[ids[1]])
             \o Adjustments(m, Tail(ids), contribution)

MaxOf(a, b) == IF a >= b THEN a ELSE b

allocate_floor_all(m, id, contribution, reduced, per_agent, reduced_per_agent) ==
    MaxOf(IF reduced THEN reduced_per_agent ELSE per_agent,
          m.budget.min_per_agent)

(* lines 957-968: the allocation of one agent *)
allocate(m, id, contribution, reduced, per_agent, reduced_per_agent) ==
    IF reduced /\ Below(contribution, m.pruning_contribution_threshold)
    THEN MaxOf(reduced_per_agent, m.budget.min_per_agent)
    ELSE per_agent

per_agent_share_of_total(total, n) ==
    IF n # 0 THEN total \div n ELSE total \div 2

(* lines 909-913 and 940-949: the baseline share *)
per_agent_share(total, n) ==
    LET available == total - safety_reserve(total)
    IN IF n # 0 THEN available \div n ELSE available \div 2

(* A reallocation that also prunes: it drops the agents whose mean        *)
(* contribution is below the pruning threshold from both histories         *)
reallocate_budget_pruning(m, total, order) ==
    LET reserve == safety_reserve(total)
        contribution == [id \in DOMAIN m.agent_usage_history |->
                            avg_contribution(m.agent_usage_history[id])]
        agent_contributions == sort_by(order, contribution)
        per_agent == per_agent_share(total, Len(agent_contributions))
        kept == {id \in DOMAIN contribution :
                    ~Below(contribution[id], m.pruning_contribution_threshold)}
    IN [monitor |-> [m EXCEPT
                        !.budget =
                            [total_budget |-> total,
                             allocated |-> [id \in kept |-> per_agent],
                             safety_reserve |-> reserve,
                             min_per_agent |-> 10000],
                        !.agent_usage_history = [id \in kept |-> @[id]],
                        !.agent_token_history =
                            [id \in DOMAIN @ \cap kept |-> @[id]]],
        per_agent |-> per_agent,
        adjustments |-> Adjustments(m, agent_contributions, contribution),
        safety_reserve |-> reserve]

(* A reallocation that keeps the share it granted as the floor of the      *)
(* next one and counts as a turn                                           *)
reallocate_budget_ratchet(m, total, order) ==
    LET reserve == safety_reserve(total)
        contribution == [id \in DOMAIN m.agent_usage_history |->
                            avg_contribution(m.agent_usage_history[id])]
        agent_contributions == sort_by(order, contribution)
        per_agent == per_agent_share(total, Len(agent_contributions))
        adjustments == Adjustments(m, agent_contributions, contribution)
        reduced_agents ==
            {id \in DOMAIN contribution :
                /\ Below(contribution[id], m.pruning_contribution_threshold)
                /\ m.auto_reduce_low_contrib}
        reduced_per_agent ==
            (per_agent * (100 - m.low_contrib_reduction_percent)) \div 100
        allocated_budget ==
            [id \in DOMAIN contribution |->
                allocate(m, id, contribution[id], id \in reduced_agents,
                         per_agent, reduced_per_agent)]
    IN [monitor |-> [m EXCEPT !.budget =
                        [total_budget |-> total,
                         allocated |-> allocated_budget,
                         safety_reserve |-> reserve,
                         min_per_agent |-> MaxOf(per_agent, 10000)],
                     !.turn_counter = @ + 1],
        per_agent |-> per_agent,
        adjustments |-> adjustments,
        safety_reserve |-> reserve]

(* reallocate_budget; order is the iteration order of agent_usage_history. *)
(* low_contrib_reduction_percent is 0, 20, 50 or 100 in the model: for     *)
(* these 1.0 - percent / 100.0 and its product by a u32 truncate to        *)
(* per_agent * (100 - percent) / 100 in integers                           *)
reallocate_budget(m, total, order) ==
    LET reserve == safety_reserve(total)
        contribution == [id \in DOMAIN m.agent_usage_history |->
                            avg_contribution(m.agent_usage_history[id])]
        agent_contributions == sort_by(order, contribution)
        per_agent == per_agent_share(total, Len(agent_contributions))
        adjustments == Adjustments(m, agent_contributions, contribution)
        reduced_agents ==
            {id \in DOMAIN contribution :
                /\ Below(contribution[id], m.pruning_contribution_threshold)
                /\ m.auto_reduce_low_contrib}
        reduced_per_agent ==
            (per_agent * (100 - m.low_contrib_reduction_percent)) \div 100
        allocated_budget ==
            [id \in DOMAIN contribution |->
                allocate(m, id, contribution[id], id \in reduced_agents,
                         per_agent, reduced_per_agent)]
    IN [monitor |-> [m EXCEPT !.budget =
                        [total_budget |-> total,
                         allocated |-> allocated_budget,
                         safety_reserve |-> reserve,
                         min_per_agent |-> 10000]],
        per_agent |-> per_agent,
        adjustments |-> adjustments,
        safety_reserve |-> reserve]

NoPrediction ==
    [some |-> FALSE, current_percentage |-> 0,
     rate |-> [num |-> 0, den |-> 1],
     time_to_threshold_seconds |-> [num |-> 0, den |-> 1],
     predicted_overflow_time |-> [num |-> 0, den |-> 1]]

(* predict_context_overflow.  recent holds the last (up to 10) samples     *)
(* newest first, as iter().rev().take(10) yields them, so first() is the   *)
(* newest sample and last() the oldest of the window.  Percentages and     *)
(* timestamps are integers in the model, the quotients are fractions; the  *)
(* three comparisons with 0.0 are sign tests of exact differences.         *)
predict_context_overflow(m) ==
    LET history == m.context_percentage_history
        n == IF Len(history) >= RateWindow THEN RateWindow ELSE Len(history)
        recent == [i \in 1..n |-> history[Len(history) + 1 - i]]
        time_span == recent[n].timestamp - recent[1].timestamp
        percentage_change == recent[n].percentage - recent[1].percentage
        current_pct == recent[n].percentage
        to_threshold == m.context_threshold - current_pct
    IN IF Len(history) < 5 THEN NoPrediction
       ELSE IF time_span > 0 /\ percentage_change > 0 /\ to_threshold > 0
            THEN [some |-> TRUE,
                  current_percentage |-> current_pct,
                  rate |-> [num |-> percentage_change * 60,
                            den |-> time_span],
                  time_to_threshold_seconds |->
                      [num |-> to_threshold * time_span,
                       den |-> percentage_change],
                  predicted_overflow_time |->
                      [num |-> recent[n].timestamp * percentage_change
                                   + to_threshold * time_span,
                       den |-> percentage_change]]
            ELSE NoPrediction

(* A pruning check that looks at the contribution only *)
check_pruning_candidate_by_contribution(m, agent_id) ==
    LET turns == HistoryOf(m.agent_usage_history, agent_id)
        recent_turns == Recent(turns, PruneWindow)
    IN /\ Len(turns) >= PruneWindow
       /\ SumOf(Contributions(recent_turns)) < 30 * PruneWindow

(* check_pruning_candidate: the averages over the 5 most recent turns;     *)
(* avg_contribution < 0.3, and avg_usage / total_budget < 0.2 (a division  *)
(* by a total of 0 gives inf or NaN, neither below 0.2)                    *)
check_pruning_candidate(m, agent_id) ==
    LET turns == HistoryOf(m.agent_usage_history, agent_id)
        recent_turns == Recent(turns, PruneWindow)
    IN /\ Len(turns) >= PruneWindow
       /\ SumOf(Contributions(recent_turns)) < 30 * PruneWindow
       /\ m.budget.total_budget > 0
       /\ SumOf(TokensUsed(recent_turns)) * 100
              < 20 * PruneWindow * m.budget.total_budget

----------------------------------------------------------------------------
(* Alerts (enhanced_monitor.rs).  order is the order in which the HashMap  *)
(* agent_token_history is iterated; timestamps are whole seconds.          *)

NoAlert == [some |-> FALSE, alert_type |-> "", agent_id |-> ""]

Alert(alert_type, agent_id) ==
    [some |-> TRUE, alert_type |-> alert_type, agent_id |-> agent_id]

NoVariance ==
    [some |-> FALSE, count |-> 0, sum |-> 0, squares |-> 0, values |-> <<>>,
     max |-> 0, min |-> 0, range |-> 0]

(* history.back() of the agents in iteration order *)
current_tokens(m, order) ==
    LET has_entry(id) == m.agent_token_history[id] # <<>>
        ids == SelectSeq(order, has_entry)
    IN [k \in 1..Len(ids) |->
          [agent_id |-> ids[k],
           tokens |-> m.agent_token_history[ids[k]]
                         [Len(m.agent_token_history[ids[k]])].tokens]]

(* get_token_variance.  With n counts x of sum s the mean is s / n and the *)
(* variance is squares / n^3, where squares is the sum of (n * x - s)^2.   *)
get_token_variance(m, order) ==
    LET current == current_tokens(m, order)
        n == Len(current)
        token_values == [k \in 1..n |-> current[k].tokens]
        s == SumOf(token_values)
        max_token == CHOOSE x \in {token_values[k] : k \in 1..n} :
                        \A k \in 1..n : token_values[k] <= x
        min_token == CHOOSE x \in {token_values[k] : k \in 1..n} :
                        \A k \in 1..n : token_values[k] >= x
    IN IF n < 2 THEN NoVariance
       ELSE [some |-> TRUE, count |-> n, sum |-> s,
             squares |-> SumOf([k \in 1..n |->
                                  (n * token_values[k] - s)
                                      * (n * token_values[k] - s)]),
             values |-> token_values,
             max |-> max_token, min |-> min_token,
             range |-> max_token - min_token]

(* The latest counts in iteration order, and the place of one of them, for *)
(* which the f64 computation of lines 345-356 and 424 yields a quotient    *)
(* above 2.0 although the exact quotient is 2 (IEEE 754 binary64, round to *)
(* nearest, sums taken in iteration order).  For the other boundary cases  *)
(* over the counts 0, 21 and 100 the f64 quotient is not above 2.0, and    *)
(* away from the boundary the f64 comparison is the exact one.             *)
RoundsAbove ==
    {<<<<0, 0, 21, 0, 0>>, 3>>,
     <<<<0, 21, 0, 0, 0>>, 2>>,
     <<<<0, 21, 21, 21, 21>>, 1>>,
     <<<<21, 0, 0, 0, 0>>, 1>>,
     <<<<21, 0, 21, 21, 21>>, 2>>,
     <<<<21, 21, 0, 21, 21>>, 3>>,
     <<<<21, 21, 21, 0, 21>>, 4>>,
     <<<<21, 21, 21, 21, 0>>, 5>>}

(* A comparison in exact arithmetic *)
deviations_above_exact(variance, k, threshold) ==
    LET d == variance.count * variance.values[k] - variance.sum
    IN /\ variance.squares > 0
       /\ variance.count * d * d > threshold * threshold * variance.squares

(* lines 423-429: std_dev > 0 and |current - mean| / std_dev > threshold,  *)
(* that is n * (n * x - s)^2 > threshold^2 * squares, as f64 computes it   *)
deviations_above(variance, k, threshold) ==
    LET d == variance.count * variance.values[k] - variance.sum
        left == variance.count * d * d
        right == threshold * threshold * variance.squares
    IN /\ variance.squares > 0
       /\ \/ left > right
          \/ left = right /\ <<variance.values, k>> \in RoundsAbove

(* check_token_variance_alert: the first agent in iteration order whose    *)
(* latest count deviates by more than variance_threshold                   *)
check_token_variance_alert(m, order) ==
    LET variance == get_token_variance(m, order)
        current == current_tokens(m, order)
        hits == {k \in 1..Len(current) :
                    deviations_above(variance, k, m.variance_threshold)}
    IN IF variance.some /\ hits # {}
       THEN Alert("high_token_variance",
                  current[CHOOSE k \in hits : \A j \in hits : k <= j].agent_id)
       ELSE NoAlert

AccelerationWindow == 5
StagnationSeconds == 120
StagnationTokens == 100

Frac(num, den) == [num |-> num, den |-> den]

FracSub(a, b) == Frac(a.num * b.den - b.num * a.den, a.den * b.den)

RECURSIVE FracSum(_)
FracSum(seq) ==
    IF seq = <<>> THEN Frac(0, 1)
    ELSE LET rest == FracSum(Tail(seq))
         IN Frac(seq[1].num * rest.den + rest.num * seq[1].den,
                 seq[1].den * rest.den)

Abs(x) == IF x < 0 THEN 0 - x ELSE x

(* lines 456-469: the steps of the last five samples over which time has   *)
(* passed; each gives one velocity                                         *)
VelocitySteps(recent) ==
    LET passed(i) == recent[i].timestamp - recent[i - 1].timestamp > 0
    IN SelectSeq([i \in 1..(Len(recent) - 1) |-> i + 1], passed)

(* `tokens[i] - tokens[i - 1]` is a usize subtraction *)
Underflows(recent) ==
    \E k \in 1..Len(VelocitySteps(recent)) :
        recent[VelocitySteps(recent)[k]].tokens
            < recent[VelocitySteps(recent)[k] - 1].tokens

(* lines 463-484 for one agent whose differences do not underflow: the    *)
(* mean acceleration exceeds the threshold in absolute value.  The time    *)
(* step of the j-th acceleration is timestamps[j] - timestamps[j - 1], as  *)
(* in the code.                                                            *)
Accelerating(recent, threshold) ==
    LET steps == VelocitySteps(recent)
        velocities ==
            [k \in 1..Len(steps) |->
                Frac(recent[steps[k]].tokens - recent[steps[k] - 1].tokens,
                     recent[steps[k]].timestamp
                         - recent[steps[k] - 1].timestamp)]
        passed(j) == recent[j].timestamp - recent[j - 1].timestamp > 0
        places == SelectSeq([j \in 1..(Len(velocities) - 1) |-> j + 1],
                            passed)
        accelerations ==
            [k \in 1..Len(places) |->
                LET j == places[k]
                    dv == FracSub(velocities[j], velocities[j - 1])
                IN Frac(dv.num,
                        dv.den * (recent[j].timestamp
                                     - recent[j - 1].timestamp))]
        total == FracSum(accelerations)
    IN /\ Len(velocities) >= 2
       /\ accelerations # <<>>
       /\ Abs(total.num) > threshold * Len(accelerations) * total.den

(* Some acceleration is computed from the velocities *)
HasAcceleration(recent) ==
    LET steps == VelocitySteps(recent)
    IN /\ Len(steps) >= 2
       /\ \E j \in 2..Len(steps) :
             recent[j].timestamp - recent[j - 1].timestamp > 0

(* check_acceleration_alert from the k-th agent of the iteration on.  A    *)
(* difference that underflows panics in a build with overflow checks;      *)
(* otherwise it wraps around, a velocity of about 2^64 / dt enters the     *)
(* mean, and huge says whether the mean then exceeds the threshold.        *)
RECURSIVE acceleration_from(_, _, _, _, _)
acceleration_from(m, order, k, overflow_checks, huge) ==
    IF k > Len(order)
    THEN [panic |-> FALSE, wrapped |-> FALSE, alert |-> NoAlert]
    ELSE
      LET history == m.agent_token_history[order[k]]
          recent == Recent(history, AccelerationWindow)
          rest == acceleration_from(m, order, k + 1, overflow_checks, huge)
      IN IF Len(history) < AccelerationWindow
         THEN rest
         ELSE IF Underflows(recent)
         THEN IF overflow_checks
              THEN [panic |-> TRUE, wrapped |-> FALSE, alert |-> NoAlert]
              ELSE IF huge /\ HasAcceleration(recent)
                   THEN [panic |-> FALSE, wrapped |-> TRUE,
                         alert |-> Alert("token_acceleration", order[k])]
                   ELSE [rest EXCEPT !.wrapped = TRUE]
         ELSE IF Accelerating(recent, m.acceleration_threshold)
              THEN [panic |-> FALSE, wrapped |-> FALSE,
                    alert |-> Alert("token_acceleration", order[k])]
              ELSE rest

check_acceleration_alert(m, order, overflow_checks, huge) ==
    acceleration_from(m, order, 1, overflow_checks, huge)

(* check_stagnation_alert: the first agent in iteration order whose last   *)
(* two samples are more than 120 s apart and differ by less than 100       *)
check_stagnation_alert(m, order) ==
    LET stagnant(id) ==
            LET history == m.agent_token_history[id]
                recent == Recent(history, 2)
            IN /\ Len(history) >= 2
               /\ recent[2].timestamp - recent[1].timestamp
                      > StagnationSeconds
               /\ Abs(recent[2].tokens - recent[1].tokens) < StagnationTokens
        hits == SelectSeq(order, stagnant)
    IN IF hits # <<>> THEN Alert("agent_stagnation", hits[1]) ELSE NoAlert

(* get_all_alerts: the alerts of the three checks, in this order *)
get_all_alerts(m, order, overflow_checks, huge) ==
    LET some(alert) == alert.some
        acceleration == check_acceleration_alert(m, order, overflow_checks,
                                                 huge)
    IN [panic |-> acceleration.panic,
        wrapped |-> acceleration.wrapped,
        alerts |-> IF acceleration.panic THEN <<>>
                   ELSE SelectSeq(<<check_token_variance_alert(m, order),
                                    acceleration.alert,
                                    check_stagnation_alert(m, order)>>,
                                  some)]

----------------------------------------------------------------------------
(* Trajectory compression (enhanced_monitor.rs, trajectory_compressor.rs). *)
(* context_pct and impact_score are in hundredths.                         *)

CompressSteps == 18
CompressTokens == 25000
CompressPct == 80

TrajectoryCompressorConfig_default ==
    [preserve_threshold |-> 70,
     max_summaries |-> 10,
     superseded_patterns |->
         <<"updated", "replaced", "superseded", "newer", "later",
           "overrides?">>,
     filter_redundant |-> TRUE,
     max_tokens |-> 10000]

(* with_config: every default pattern compiles, so superseded_patterns *)
(* holds one regex per pattern of the configuration                     *)
with_config(config) ==
    [config |-> config,
     superseded_patterns |-> config.superseded_patterns,
     preserved_count |-> 0,
     summarized_count |-> 0,
     filtered_count |-> 0]

TrajectoryCompressor_new == with_config(TrajectoryCompressorConfig_default)

update_config(c, config) ==
    [c EXCEPT !.superseded_patterns = config.superseded_patterns,
              !.config = config]

(* A check that does not look at the context percentage at the bound *)
should_compress_from_threshold(context_pct, steps, tokens) ==
    context_pct >= CompressPct
        /\ (steps >= CompressSteps \/ tokens >= CompressTokens)

(* EnhancedMonitor::should_compress *)
should_compress(context_pct, steps, tokens) ==
    context_pct > CompressPct
        /\ (steps >= CompressSteps \/ tokens >= CompressTokens)

(* TrajectoryCompressor::should_compress *)
compressor_should_compress(context_pct, steps, tokens) ==
    context_pct > CompressPct \/ steps >= CompressSteps
        \/ tokens >= CompressTokens

(* A TrajectoryEntry.  timestamp is the position in the log, outcome a     *)
(* sequence of words, impact_score is in hundredths.  Token counts stay    *)
(* far below the u32 range, so the sums below do not overflow.             *)
TrajectoryEntry(timestamp, action, outcome, is_repeat, impact_score,
                succeeded, tokens_used) ==
    [timestamp |-> timestamp, action |-> action, outcome |-> outcome,
     is_repeat |-> is_repeat, impact_score |-> impact_score,
     succeeded |-> succeeded, tokens_used |-> tokens_used]

(* iter().filter(..).collect() *)
Filter(seq, keep(_)) == SelectSeq(seq, keep)

EntryTokens(entries) ==
    SumOf([i \in 1..Len(entries) |-> entries[i].tokens_used])

SavedTokens(summaries) ==
    SumOf([i \in 1..Len(summaries) |-> summaries[i].tokens_saved])

(* The keys of action_groups, and the group of one key in insertion order *)
ActionsOf(entries) == {entries[i].action : i \in 1..Len(entries)}

GroupOf(entries, action) ==
    LET same(e) == e.action = action
    IN Filter(entries, same)

(* format!("{}x {} -> consolidated", count, action), or an outcome *)
Description(outcome, count, action) ==
    [outcome |-> outcome, count |-> count, action |-> action]

(* format!("failed_attempt_{}", n), format!("successful_attempt_{}", n),   *)
(* or the action itself                                                    *)
Pattern(kind, n, action) == [kind |-> kind, n |-> n, action |-> action]

(* A summary that never consolidates a single entry into a group *)
monitor_group_and_summarize_pairs(entries, order) ==
    LET repeated(action) == Len(GroupOf(entries, action)) >= 2
        kept == Filter(order, repeated)
    IN [i \in 1..Len(kept) |->
          LET group == GroupOf(entries, kept[i])
              count == Len(group)
              avg_tokens == EntryTokens(group) \div count
          IN [pattern |-> Pattern("action", 0, kept[i]),
              count |-> count,
              consolidated_description |-> Description(<<>>, count, kept[i]),
              tokens_saved |-> (avg_tokens * (count - 1)) \div 2]]

(* A summary that counts one token saved per entry after the first *)
monitor_group_and_summarize_flat(entries, order) ==
    [i \in 1..Len(order) |->
        LET group == GroupOf(entries, order[i])
            count == Len(group)
        IN [pattern |-> Pattern("action", 0, order[i]),
            count |-> count,
            consolidated_description |->
                IF count = 1 THEN Description(group[1].outcome, 0, "")
                ELSE Description(<<>>, count, order[i]),
            tokens_saved |-> EntryTokens(group) \div 2]]

(* EnhancedMonitor::group_and_summarize; order is the iteration order of   *)
(* action_groups.  Every group yields a summary, also a group of one.      *)
monitor_group_and_summarize(entries, order) ==
    [i \in 1..Len(order) |->
        LET group == GroupOf(entries, order[i])
            count == Len(group)
            avg_tokens == EntryTokens(group) \div count
        IN [pattern |-> Pattern("action", 0, order[i]),
            count |-> count,
            consolidated_description |->
                IF count = 1 THEN Description(group[1].outcome, 0, "")
                ELSE Description(<<>>, count, order[i]),
            tokens_saved |-> (avg_tokens * (count - 1)) \div 2]]

(* sort_by(|a, b| b.count.cmp(&a.count)): stable, larger counts first *)
sort_by_count(summaries) ==
    LET n == Len(summaries)
        before(i, j) ==
            \/ summaries[i].count > summaries[j].count
            \/ summaries[i].count = summaries[j].count /\ i < j
        rank(i) == 1 + Cardinality({j \in 1..n : before(j, i)})
    IN [k \in 1..n |-> summaries[CHOOSE i \in 1..n : rank(i) = k]]

(* Vec::truncate *)
truncate(seq, len) == IF Len(seq) > len THEN SubSeq(seq, 1, len) ELSE seq

MaxSummaries == 10

(* TrajectoryCompressor::group_and_summarize; order is the order in which  *)
(* into_iter() yields action_groups                                        *)
compressor_group_and_summarize(entries, order) ==
    LET repeated(action) == Len(GroupOf(entries, action)) >= 2
        kept == Filter(order, repeated)
        succeededOf(e) == e.succeeded
        failedOf(e) == ~e.succeeded
        summaries ==
            [i \in 1..Len(kept) |->
                LET group == GroupOf(entries, kept[i])
                    count == Len(group)
                    successful_count == Len(Filter(group, succeededOf))
                    failed_count == Len(Filter(group, failedOf))
                IN [pattern |->
                        IF failed_count > 0 /\ failed_count >= count \div 2
                        THEN Pattern("failed_attempt", failed_count, "")
                        ELSE IF successful_count > 0
                             THEN Pattern("successful_attempt",
                                          successful_count, "")
                             ELSE Pattern("action", 0, kept[i]),
                    count |-> count,
                    consolidated_description |->
                        Description(group[1].outcome, 0, ""),
                    tokens_saved |-> (count - 1) * 100]]
    IN IF entries = <<>> THEN <<>>
       ELSE truncate(sort_by_count(summaries), MaxSummaries)

(* Regex::is_match on a lower-cased outcome: the pattern occurs in it.  No *)
(* word of the model contains a pattern without being equal to it, except  *)
(* that "overrides?" matches "override" and "overrides".                   *)
is_match(pattern, text) ==
    \E i \in 1..Len(text) :
        \/ text[i] = pattern
        \/ pattern = "overrides?" /\ text[i] \in {"override", "overrides"}

LowerOutcome(outcome) == [i \in 1..Len(outcome) |-> to_lowercase(outcome[i])]

(* TrajectoryCompressor::is_superseded *)
is_superseded(c, entry) ==
    \E k \in 1..Len(c.superseded_patterns) :
        is_match(c.superseded_patterns[k], LowerOutcome(entry.outcome))

(* TrajectoryCompressor::is_redundant *)
is_redundant(c, entry) ==
    /\ ~entry.succeeded
    /\ entry.is_repeat
    /\ entry.impact_score < c.config.preserve_threshold

NoCompressed ==
    [preserved |-> <<>>, summarized |-> <<>>,
     compression_ratio |-> [num |-> 0, den |-> 1]]

(* lines 681-690 / 175-184: the ratio, as a fraction *)
compression_ratio(trajectory, preserved, summarized) ==
    LET original_tokens == trajectory.tokens_used
        compressed_tokens ==
            EntryTokens(preserved) + SavedTokens(summarized) \div 3
    IN IF original_tokens > 0
       THEN [num |-> compressed_tokens, den |-> original_tokens]
       ELSE [num |-> 0, den |-> 1]

HighImpactPct == 70

(* EnhancedMonitor::compress_trajectory; order is the iteration order of   *)
(* the groups of the low-impact entries                                    *)
monitor_compress_trajectory(trajectory, order) ==
    LET high(e) == e.impact_score >= HighImpactPct \/ e.succeeded
        low(e) == e.impact_score < HighImpactPct /\ ~e.succeeded
        preserved == Filter(trajectory.entries, high)
        low_impact == Filter(trajectory.entries, low)
        summarized == monitor_group_and_summarize(low_impact, order)
    IN [preserved |-> preserved, summarized |-> summarized,
        compression_ratio |->
            compression_ratio(trajectory, preserved, summarized)]

(* The low-impact entries of TrajectoryCompressor::compress_trajectory *)
compressor_low_impact(c, trajectory) ==
    LET low(e) ==
            /\ ~(e.impact_score >= c.config.preserve_threshold \/ e.succeeded)
            /\ ~(is_superseded(c, e) \/ is_redundant(c, e))
    IN Filter(trajectory.entries, low)

(* TrajectoryCompressor::compress_trajectory *)
compressor_compress_trajectory(c, trajectory, order) ==
    LET high(e) ==
            e.impact_score >= c.config.preserve_threshold \/ e.succeeded
        preserved == Filter(trajectory.entries, high)
        low_impact == compressor_low_impact(c, trajectory)
        summarized == compressor_group_and_summarize(low_impact, order)
    IN [preserved |-> preserved, summarized |-> summarized,
        compression_ratio |->
            compression_ratio(trajectory, preserved, summarized)]

(* The low-impact entries of EnhancedMonitor::compress_trajectory *)
monitor_low_impact(trajectory) ==
    LET low(e) == e.impact_score < HighImpactPct /\ ~e.succeeded
    IN Filter(trajectory.entries, low)

----------------------------------------------------------------------------
(* filter_expired_info (enhanced_monitor.rs, trajectory_compressor.rs)     *)

SUPERSEDED_PATTERNS ==
    <<"updated", "replaced", "superseded", "newer", "later", "override",
      "overrides", "revised", "corrected", "fixed", "refined", "improved">>

(* REDUNDANT_PATTERNS, each pattern as the runs of words that match it     *)
(* (the words of a run are separated by white space)                       *)
REDUNDANT_PATTERNS ==
    <<{<<"status:", "working">>, <<"status", "working">>,
       <<"status:", "in", "progress">>, <<"status", "in", "progress">>,
       <<"status:", "proceeding">>, <<"status", "proceeding">>},
      {<<"still", "working">>, <<"still", "processing">>},
      {<<"no", "change">>, <<"no", "updates">>, <<"no", "new", "info">>},
      {<<"continuing", "as", "before">>},
      {<<"same", "as", "before">>, <<"same", "as", "previous">>}>>

(* Regex::is_match of one of the REDUNDANT_PATTERNS *)
is_match_run(runs, text) ==
    \E run \in runs :
        \E i \in 1..Len(text) :
            /\ i + Len(run) - 1 <= Len(text)
            /\ SubSeq(text, i, i + Len(run) - 1) = run

(* fn is_superseded of EnhancedMonitor::filter_expired_info: the patterns  *)
(* are compiled with (?i) and matched against the lower-cased outcome      *)
monitor_is_superseded(entry) ==
    \E k \in 1..Len(SUPERSEDED_PATTERNS) :
        is_match(SUPERSEDED_PATTERNS[k], LowerOutcome(entry.outcome))

(* fn is_redundant of EnhancedMonitor::filter_expired_info *)
monitor_is_redundant(entry) ==
    \E k \in 1..Len(REDUNDANT_PATTERNS) :
        is_match_run(REDUNDANT_PATTERNS[k], LowerOutcome(entry.outcome))

(* format!("{}:{}", entry.timestamp, entry.action) *)
entry_id(entry) == <<entry.timestamp, ":", entry.action>>

(* HashMap::insert *)
insert(map, key, value) ==
    [k \in DOMAIN map \cup {key} |-> IF k = key THEN value ELSE map[k]]

RedundantFloorPct == 30
RedundantKeepPct == 50

(* A sort that puts the later of two entries of equal impact first *)
sort_by_impact_unstable(result) ==
    LET n == Len(result)
        before(i, j) ==
            \/ result[i].impact_score > result[j].impact_score
            \/ result[i].impact_score = result[j].impact_score /\ i > j
        rank(i) == 1 + Cardinality({j \in 1..n : before(j, i)})
    IN [k \in 1..n |-> result[CHOOSE i \in 1..n : rank(i) = k]]

(* sort_by(|a, b| b.impact_score.partial_cmp(&a.impact_score).unwrap()):   *)
(* stable, higher impact first                                             *)
sort_by_impact(result) ==
    LET n == Len(result)
        before(i, j) ==
            \/ result[i].impact_score > result[j].impact_score
            \/ result[i].impact_score = result[j].impact_score /\ i < j
        rank(i) == 1 + Cardinality({j \in 1..n : before(j, i)})
    IN [k \in 1..n |-> result[CHOOSE i \in 1..n : rank(i) = k]]

(* The first loop of EnhancedMonitor::filter_expired_info (lines 725-757)  *)
(* from entry i on                                                         *)
RECURSIVE monitor_scan(_, _, _)
monitor_scan(entries, i, st) ==
    IF i > Len(entries) THEN st
    ELSE
      LET entry == entries[i]
          id == entry_id(entry)
          redundant == monitor_is_redundant(entry)
          st1 == IF redundant
                 THEN [st EXCEPT !.redundant_entries = @ \cup {id}]
                 ELSE st
          next ==
            IF monitor_is_superseded(entry)
            THEN [st EXCEPT !.superseded_entries = @ \cup {id}]
            ELSE IF redundant /\ entry.impact_score < RedundantFloorPct
            THEN st1
            ELSE IF ~entry.succeeded
            THEN st1
            ELSE IF entry.action \in DOMAIN st1.latest_by_action
            THEN
              LET existing == st1.latest_by_action[entry.action]
              IN IF \/ entry.impact_score > existing.impact_score
                    \/ /\ entry.impact_score = existing.impact_score
                       /\ entry.tokens_used > existing.tokens_used
                 THEN [st1 EXCEPT
                         !.superseded_entries = @ \cup {entry_id(existing)},
                         !.latest_by_action = insert(@, entry.action, entry)]
                 ELSE [st1 EXCEPT !.superseded_entries = @ \cup {id}]
            ELSE [st1 EXCEPT
                    !.latest_by_action = insert(@, entry.action, entry)]
      IN monitor_scan(entries, i + 1, next)

(* EnhancedMonitor::filter_expired_info *)
monitor_filter_expired_info(entries) ==
    LET st == monitor_scan(entries, 1,
                  [latest_by_action |-> <<>>, superseded_entries |-> {},
                   redundant_entries |-> {}])
        kept(entry) ==
            /\ entry_id(entry) \notin st.superseded_entries
            /\ ~(/\ entry_id(entry) \in st.redundant_entries
                 /\ entry.impact_score < RedundantKeepPct)
    IN sort_by_impact(Filter(entries, kept))

(* The loop of TrajectoryCompressor::filter_expired_info (lines 200-217)   *)
(* from entry i on                                                         *)
RECURSIVE compressor_scan(_, _, _, _)
compressor_scan(c, entries, i, st) ==
    IF i > Len(entries) THEN st
    ELSE
      LET entry == entries[i]
          next ==
            IF ~entry.succeeded THEN st
            ELSE IF entry.action \in DOMAIN st.latest_by_action
            THEN
              LET existing == st.latest_by_action[entry.action]
              IN IF is_superseded(c, entry)
                 THEN [st EXCEPT !.superseded = Append(@, entry)]
                 ELSE IF entry.impact_score > existing.impact_score
                 THEN [st EXCEPT
                         !.superseded = Append(@, existing),
                         !.latest_by_action = insert(@, entry.action, entry)]
                 ELSE [st EXCEPT !.superseded = Append(@, entry)]
            ELSE [st EXCEPT
                    !.latest_by_action = insert(@, entry.action, entry)]
      IN compressor_scan(c, entries, i + 1, next)

(* The keys of latest_by_action when the loop is over *)
compressor_latest_actions(c, entries) ==
    DOMAIN compressor_scan(c, entries, 1,
               [latest_by_action |-> <<>>, superseded |-> <<>>]).latest_by_action

(* TrajectoryCompressor::filter_expired_info; order is the order in which  *)
(* into_values() yields latest_by_action                                   *)
compressor_filter_expired_info(c, entries, order) ==
    LET st == compressor_scan(c, entries, 1,
                  [latest_by_action |-> <<>>, superseded |-> <<>>])
        high(e) == e.impact_score >= RedundantKeepPct
        latest == [k \in 1..Len(order) |-> st.latest_by_action[order[k]]]
    IN sort_by_impact(latest \o Filter(st.superseded, high))

----------------------------------------------------------------------------
(* State *)

NoCall ==
    [op |-> "none", agent_id |-> "", prompt |-> <<>>, state |-> "",
     ret |-> None, io |-> {}, faulty |-> {}, fresh |-> FALSE]

Call(op, agent_id, prompt, state, r, faulty) ==
    [op |-> op, agent_id |-> agent_id, prompt |-> prompt, state |-> state,
     ret |-> r.ret, io |-> r.io, faulty |-> faulty, fresh |-> FALSE]

(* What the history variable keeps of a call *)
Entry(call) ==
    [op |-> call.op, agent_id |-> call.agent_id, prompt |-> call.prompt,
     state |-> call.state, ret |-> call.ret]

Procs == {1, 2}

NoSim ==
    [prompt1 |-> <<>>, prompt2 |-> <<>>, jaccard |-> [num |-> 0, den |-> 1],
     semantic |-> [num |-> 0, den |-> 1], done |-> FALSE]

(* No similarity computed, a monitor on which nothing was called *)
InitMonitorIdle ==
    /\ sim = NoSim
    /\ compressor = TrajectoryCompressor_new
    /\ monitor = EnhancedMonitor_new(200000)
    /\ monitor0 = monitor
    /\ mlog = <<>>

(* No process inside a call, no replayed run *)
InitLoopIdle ==
    /\ solo = [a \in Agents |-> <<>>]
    /\ detector2 = LoopDetector_new(SwarmConfig_default)
    /\ last2 = NoCall
    /\ pc = [p \in Procs |-> "idle"]
    /\ local = [p \in Procs |->
                  [agent_id |-> "", prompt |-> <<>>, hashes |-> <<>>,
                   count |-> 0]]
    /\ returned = [p \in Procs |-> None]

InitIdle ==
    /\ InitLoopIdle
    /\ InitMonitorIdle

InitCommon ==
    /\ last = NoCall
    /\ InitIdle

(* No document persisted, no call made *)
Fresh ==
    /\ files = <<>>
    /\ files2 = <<>>
    /\ log = <<>>

Init ==
    /\ InitCommon
    /\ Fresh
    /\ detector = LoopDetector_new(SwarmConfig_default)

(* One call of check_exact_loop on the detector *)
CheckExactLoop(agent_id, prompt, faulty, now) ==
    LET r == check_exact_loop(detector, files, faulty, now, agent_id, prompt)
    IN /\ files' = r.files
       /\ last' = Call("check_exact_loop", agent_id, prompt, "", r, faulty)
       /\ UNCHANGED <<detector, sim, monitor, monitor0, mlog,
                   compressor>>

(* One call of check_semantic_loop on the detector *)
CheckSemanticLoop(agent_id, prompt, faulty, now) ==
    LET r == check_semantic_loop(detector, files, faulty, now, agent_id,
                                 prompt)
    IN /\ files' = r.files
       /\ last' = Call("check_semantic_loop", agent_id, prompt, "", r, faulty)
       /\ UNCHANGED <<detector, sim, monitor, monitor0, mlog,
                   compressor>>

(* One call of check_state_oscillation on the detector *)
CheckStateOscillation(agent_id, state, faulty, now) ==
    LET r == check_state_oscillation(detector, files, faulty, now, agent_id,
                                     state)
    IN /\ files' = r.files
       /\ last' = Call("check_state_oscillation", agent_id, <<>>, state, r,
                       faulty)
       /\ UNCHANGED <<detector, sim, monitor, monitor0, mlog,
                   compressor>>

(* One call of check_all_loops on the detector *)
CheckAllLoops(agent_id, prompt, state, faulty, now) ==
    LET r == check_all_loops(detector, files, faulty, now, agent_id, prompt,
                             state)
    IN /\ files' = r.files
       /\ last' = Call("check_all_loops", agent_id, prompt, state, r, faulty)
       /\ UNCHANGED <<detector, sim, monitor, monitor0, mlog,
                   compressor>>

----------------------------------------------------------------------------
(* The monitor's operations as actions.  Each appends the call and what it *)
(* returned to mlog (for reallocate_budget also the allocations that it     *)
(* stored).  A panic ends the program: no call follows it.                 *)

loopVars == <<files, detector, last, log, solo, files2, detector2, last2,
              pc, local, returned, sim>>

NoRet ==
    [flag |-> FALSE, per_agent |-> 0, adjustments |-> <<>>,
     safety_reserve |-> 0, panic |-> FALSE, prediction |-> NoPrediction,
     compressed |-> NoCompressed, filtered |-> <<>>, alerts |-> <<>>,
     wrapped |-> FALSE, allocated |-> <<>>]

NoArgs ==
    [op |-> "none", target |-> "monitor", agent_id |-> "", tokens |-> 0,
     contribution |-> 0, tasks |-> 0, total |-> 0, percentage |-> 0,
     ts |-> 0, context_pct |-> 0, steps |-> 0,
     trajectory |-> [entries |-> <<>>, tokens_used |-> 0], order |-> <<>>,
     entries |-> <<>>, ret |-> NoRet]

mlast == IF mlog = <<>> THEN NoArgs ELSE mlog[Len(mlog)]

Running == ~mlast.ret.panic

RecordTokenUsage(agent_id, tokens, ts, overflow_checks) ==
    /\ Running
    /\ LET r == record_token_usage(monitor, agent_id, tokens, ts,
                                   overflow_checks)
       IN /\ monitor' = r.monitor
          /\ mlog' = Append(mlog,
                 [NoArgs EXCEPT !.op = "record_token_usage",
                                !.agent_id = agent_id, !.tokens = tokens,
                                !.ts = ts,
                                !.ret = [NoRet EXCEPT !.panic = r.panic]])
    /\ UNCHANGED <<loopVars, compressor, monitor0>>

RecordContextPercentage(percentage, ts) ==
    /\ Running
    /\ monitor' = record_context_percentage(monitor, percentage, ts)
    /\ mlog' = Append(mlog,
           [NoArgs EXCEPT !.op = "record_context_percentage",
                          !.percentage = percentage, !.ts = ts])
    /\ UNCHANGED <<loopVars, compressor, monitor0>>

RecordLoopDetection(agent_id, ts) ==
    /\ Running
    /\ monitor' = record_loop_detection(monitor, agent_id, ts)
    /\ mlog' = Append(mlog,
           [NoArgs EXCEPT !.op = "record_loop_detection",
                          !.agent_id = agent_id, !.ts = ts])
    /\ UNCHANGED <<loopVars, compressor, monitor0>>

RecordIntervention(agent_id, success, ts) ==
    /\ Running
    /\ monitor' = record_intervention(monitor, agent_id, success, ts)
    /\ mlog' = Append(mlog,
           [NoArgs EXCEPT !.op = "record_intervention",
                          !.agent_id = agent_id, !.ts = ts])
    /\ UNCHANGED <<loopVars, compressor, monitor0>>

RecordScopeAdjustment(agent_id, ts) ==
    /\ Running
    /\ monitor' = record_scope_adjustment(monitor, agent_id, ts)
    /\ mlog' = Append(mlog,
           [NoArgs EXCEPT !.op = "record_scope_adjustment",
                          !.agent_id = agent_id, !.ts = ts])
    /\ UNCHANGED <<loopVars, compressor, monitor0>>

RecordCompaction(ts) ==
    /\ Running
    /\ monitor' = record_compaction(monitor, ts)
    /\ mlog' = Append(mlog,
           [NoArgs EXCEPT !.op = "record_compaction", !.ts = ts])
    /\ UNCHANGED <<loopVars, compressor, monitor0>>

RecordAgentFailure(agent_id, error_type, ts) ==
    /\ Running
    /\ monitor' = record_agent_failure(monitor, agent_id, error_type, ts)
    /\ mlog' = Append(mlog,
           [NoArgs EXCEPT !.op = "record_agent_failure",
                          !.agent_id = agent_id, !.ts = ts])
    /\ UNCHANGED <<loopVars, compressor, monitor0>>

TrackUsage(agent_id, tokens_used, contribution, tasks_completed) ==
    /\ Running
    /\ monitor' = track_usage(monitor, agent_id, tokens_used, contribution,
                              tasks_completed)
    /\ mlog' = Append(mlog,
           [NoArgs EXCEPT !.op = "track_usage", !.agent_id = agent_id,
                          !.tokens = tokens_used,
                          !.contribution = contribution,
                          !.tasks = tasks_completed])
    /\ UNCHANGED <<loopVars, compressor, monitor0>>

CheckImbalance(order) ==
    /\ Running
    /\ mlog' = Append(mlog,
           [NoArgs EXCEPT !.op = "check_imbalance",
                          !.ret = [NoRet EXCEPT !.flag =
                                      check_imbalance(monitor, order)]])
    /\ UNCHANGED <<loopVars, compressor, monitor, monitor0>>

ReallocateBudget(total, order) ==
    /\ Running
    /\ LET r == reallocate_budget(monitor, total, order)
       IN /\ monitor' = r.monitor
          /\ mlog' = Append(mlog,
                 [NoArgs EXCEPT !.op = "reallocate_budget", !.total = total,
                                !.ret = [NoRet EXCEPT
                                    !.flag = TRUE,
                                    !.per_agent = r.per_agent,
                                    !.adjustments = r.adjustments,
                                    !.safety_reserve = r.safety_reserve,
                                    !.allocated =
                                        r.monitor.budget.allocated]])
    /\ UNCHANGED <<loopVars, compressor, monitor0>>

CheckPruningCandidate(agent_id) ==
    /\ Running
    /\ mlog' = Append(mlog,
           [NoArgs EXCEPT !.op = "check_pruning_candidate",
                          !.agent_id = agent_id,
                          !.ret = [NoRet EXCEPT !.flag =
                                      check_pruning_candidate(monitor,
                                                              agent_id)]])
    /\ UNCHANGED <<loopVars, compressor, monitor, monitor0>>

PredictContextOverflow ==
    /\ Running
    /\ mlog' = Append(mlog,
           [NoArgs EXCEPT !.op = "predict_context_overflow",
                          !.ret = [NoRet EXCEPT
                              !.flag = predict_context_overflow(monitor).some,
                              !.prediction =
                                  predict_context_overflow(monitor)]])
    /\ UNCHANGED <<loopVars, compressor, monitor, monitor0>>

(* get_token_variance, the check_*_alert methods and get_all_alerts take   *)
(* &self: they read the histories and return what they find                *)
CheckTokenVarianceAlert(order) ==
    /\ Running
    /\ mlog' = Append(mlog,
           [NoArgs EXCEPT !.op = "check_token_variance_alert",
                          !.order = order,
                          !.ret = [NoRet EXCEPT !.alerts =
                              LET alert == check_token_variance_alert(monitor,
                                                                      order)
                              IN IF alert.some THEN <<alert>> ELSE <<>>]])
    /\ UNCHANGED <<loopVars, compressor, monitor, monitor0>>

CheckAccelerationAlert(order, overflow_checks, huge) ==
    /\ Running
    /\ LET r == check_acceleration_alert(monitor, order, overflow_checks,
                                         huge)
       IN mlog' = Append(mlog,
              [NoArgs EXCEPT !.op = "check_acceleration_alert",
                             !.order = order,
                             !.ret = [NoRet EXCEPT
                                 !.panic = r.panic,
                                 !.wrapped = r.wrapped,
                                 !.alerts = IF r.alert.some THEN <<r.alert>>
                                            ELSE <<>>]])
    /\ UNCHANGED <<loopVars, compressor, monitor, monitor0>>

GetAllAlerts(order, overflow_checks, huge) ==
    /\ Running
    /\ LET r == get_all_alerts(monitor, order, overflow_checks, huge)
       IN mlog' = Append(mlog,
              [NoArgs EXCEPT !.op = "get_all_alerts",
                             !.order = order,
                             !.ret = [NoRet EXCEPT !.panic = r.panic,
                                                   !.wrapped = r.wrapped,
                                                   !.alerts = r.alerts]])
    /\ UNCHANGED <<loopVars, compressor, monitor, monitor0>>

(* The TrajectoryCompression trait, implemented by EnhancedMonitor and by *)
(* TrajectoryCompressor; target names the implementation called            *)
MonitorShouldCompress(context_pct, steps, tokens) ==
    /\ Running
    /\ mlog' = Append(mlog,
           [NoArgs EXCEPT !.op = "should_compress",
                          !.context_pct = context_pct, !.steps = steps,
                          !.tokens = tokens,
                          !.ret = [NoRet EXCEPT !.flag =
                              should_compress(context_pct, steps, tokens)]])
    /\ UNCHANGED <<loopVars, compressor, monitor, monitor0>>

CompressorShouldCompress(context_pct, steps, tokens) ==
    /\ Running
    /\ mlog' = Append(mlog,
           [NoArgs EXCEPT !.op = "should_compress",
                          !.target = "compressor",
                          !.context_pct = context_pct, !.steps = steps,
                          !.tokens = tokens,
                          !.ret = [NoRet EXCEPT !.flag =
                              compressor_should_compress(context_pct, steps,
                                                         tokens)]])
    /\ UNCHANGED <<loopVars, compressor, monitor, monitor0>>

MonitorCompressTrajectory(trajectory, order) ==
    /\ Running
    /\ mlog' = Append(mlog,
           [NoArgs EXCEPT !.op = "compress_trajectory",
                          !.trajectory = trajectory, !.order = order,
                          !.ret = [NoRet EXCEPT !.compressed =
                              monitor_compress_trajectory(trajectory,
                                                          order)]])
    /\ UNCHANGED <<loopVars, compressor, monitor, monitor0>>

(* compress_trajectory takes &self: the three counters stay as they are *)
CompressorCompressTrajectory(trajectory, order) ==
    /\ Running
    /\ mlog' = Append(mlog,
           [NoArgs EXCEPT !.op = "compress_trajectory",
                          !.target = "compressor",
                          !.trajectory = trajectory, !.order = order,
                          !.ret = [NoRet EXCEPT !.compressed =
                              compressor_compress_trajectory(compressor,
                                  trajectory, order)]])
    /\ UNCHANGED <<loopVars, compressor, monitor, monitor0>>

UpdateConfig(config) ==
    /\ Running
    /\ compressor' = update_config(compressor, config)
    /\ mlog' = Append(mlog, [NoArgs EXCEPT !.op = "update_config",
                                           !.target = "compressor"])
    /\ UNCHANGED <<loopVars, monitor, monitor0>>

MonitorFilterExpiredInfo(entries) ==
    /\ Running
    /\ mlog' = Append(mlog,
           [NoArgs EXCEPT !.op = "filter_expired_info",
                          !.entries = entries,
                          !.ret = [NoRet EXCEPT !.filtered =
                              monitor_filter_expired_info(entries)]])
    /\ UNCHANGED <<loopVars, compressor, monitor, monitor0>>

(* filter_expired_info takes &self: the three counters stay as they are *)
CompressorFilterExpiredInfo(entries, order) ==
    /\ Running
    /\ mlog' = Append(mlog,
           [NoArgs EXCEPT !.op = "filter_expired_info",
                          !.target = "compressor",
                          !.entries = entries, !.order = order,
                          !.ret = [NoRet EXCEPT !.filtered =
                              compressor_filter_expired_info(compressor,
                                  entries, order)]])
    /\ UNCHANGED <<loopVars, compressor, monitor, monitor0>>

(* No loop detector call made, none in progress *)
InitLoopUnused ==
    /\ last = NoCall
    /\ InitLoopIdle
    /\ Fresh
    /\ detector = LoopDetector_new(SwarmConfig_default)
    /\ sim = NoSim
    /\ compressor = TrajectoryCompressor_new

----------------------------------------------------------------------------
(* Spec: direct check_exact_loop calls, two agents, no I/O faults *)

AgentsExact == Agents
PromptsExact == {P1, P2, Empty}

ExactCall(agent_id, prompt) ==
    /\ Len(log) < MaxCallsExact
    /\ CheckExactLoop(agent_id, prompt, NoFaults, 0)
    /\ log' = Append(log, Entry(last'))
    /\ UNCHANGED <<solo, files2, detector2, last2, pc, local, returned>>

Next ==
    \E agent_id \in AgentsExact, prompt \in PromptsExact :
        ExactCall(agent_id, prompt)

Spec == Init /\ [][Next]_vars

(* The number of calls in lg made for this agent with this prompt *)
NthCall(lg, agent_id, prompt) ==
    Cardinality({i \in 1..Len(lg) :
                    lg[i].agent_id = agent_id /\ lg[i].prompt = prompt})

IsDetection(ret, detection_type) ==
    ret.kind = "Some" /\ ret.detection_type = detection_type

(* C1: for a fresh agent the k-th check_exact_loop call with a prompt      *)
(* returns nothing while k < exact_loop_threshold and returns ExactLoop    *)
(* with loop_count = exact_loop_threshold when k = exact_loop_threshold,   *)
(* whatever calls with other prompts are interleaved.                      *)
C1_ExactFiresAtThreshold ==
    last.op = "check_exact_loop" =>
        LET k == NthCall(log, last.agent_id, last.prompt)
            t == detector.exact_loop_threshold
        IN /\ k < t => last.ret = None
           /\ k = t => /\ IsDetection(last.ret, "ExactLoop")
                       /\ last.ret.loop_count = t
                       /\ last.ret.agent_id = last.agent_id
                       /\ last.ret.prompt_hash = hash_prompt(last.prompt)

C1_Witness ==
    /\ last.op = "check_exact_loop"
    /\ NthCall(log, last.agent_id, last.prompt) = 3
    /\ IsDetection(last.ret, "ExactLoop")
    /\ last.ret.loop_count = 3
    /\ \E i \in 1..Len(log) :
          log[i].agent_id = last.agent_id /\ log[i].prompt # last.prompt

----------------------------------------------------------------------------
(* SpecOsc: direct check_state_oscillation calls for one agent, with the   *)
(* configured state_oscillation_threshold between 1 and MaxOscThreshold    *)

AgentsOsc == {"agent1"}
StatesOsc == {"A", "B", "C"}

OscThresholds == (1..MaxOscThreshold) \cup {10}

OscDetector(t) ==
    LoopDetector_new([SwarmConfig_default EXCEPT
                         !.loop_state_oscillation_threshold = t])

(* The calls check_state_oscillation("agent1", A), (.., B), (.., A), ..    *)
(* made before the run starts: the i-th of them, made on the state         *)
(* history its i - 1 predecessors left                                     *)
OscLabel(i) == IF i % 2 = 1 THEN "A" ELSE "B"

OscBefore(t, i) ==
    LET path == get_state_history_path(OscDetector(t), "agent1")
        fsys == IF i = 1 THEN <<>>
                ELSE [p \in {path} |-> [k \in 1..(i - 1) |-> OscLabel(k)]]
    IN check_state_oscillation(OscDetector(t), fsys, NoFaults, 0, "agent1",
                               OscLabel(i))

InitOsc ==
    /\ InitCommon
    /\ files2 = <<>>
    /\ \E t \in OscThresholds, n \in {0, OscCallsBefore} :
          /\ detector = OscDetector(t)
          /\ files = IF n = 0 THEN <<>> ELSE OscBefore(t, n).files
          /\ log = [i \in 1..n |->
                       Entry(Call("check_state_oscillation", "agent1", <<>>,
                                  OscLabel(i), OscBefore(t, i), NoFaults))]

(* The calls of the run itself: the log without the calls made before *)
OscCallsMade ==
    IF Len(log) >= OscCallsBefore THEN Len(log) - OscCallsBefore ELSE Len(log)

OscCall(agent_id, state) ==
    /\ OscCallsMade < MaxCallsOsc
    /\ CheckStateOscillation(agent_id, state, NoFaults, 0)
    /\ log' = Append(log, Entry(last'))
    /\ UNCHANGED <<solo, files2, detector2, last2, pc, local, returned>>

NextOsc ==
    \E agent_id \in AgentsOsc, state \in StatesOsc : OscCall(agent_id, state)

SpecOsc == InitOsc /\ [][NextOsc]_vars

(* The labels submitted so far for an agent, oldest first *)
RECURSIVE StatesOf(_, _)
StatesOf(lg, agent_id) ==
    IF lg = <<>> THEN <<>>
    ELSE LET rest == StatesOf(SubSeq(lg, 1, Len(lg) - 1), agent_id)
             e == lg[Len(lg)]
         IN IF e.agent_id = agent_id THEN Append(rest, e.state) ELSE rest

(* The n most recent elements of a sequence *)
LastN(seq, n) ==
    IF Len(seq) <= n THEN seq ELSE SubSeq(seq, Len(seq) - n + 1, Len(seq))

(* C4: check_state_oscillation, called directly with a threshold t in      *)
(* 1..10, appends the label to the agent's state history and returns       *)
(* StateOscillation iff the history then holds at least 2t labels and in   *)
(* its most recent 2t labels all labels at even positions are equal, all   *)
(* labels at odd positions are equal and the two values differ; a window   *)
(* with one label only or with three or more labels never fires.           *)
C4_OscillationIffStrictAlternation ==
    last.op = "check_state_oscillation" =>
        LET t == detector.state_oscillation_threshold
            h == LastN(StatesOf(log, last.agent_id), StateHistoryCap)
            n == Len(h)
            window == (n - 2 * t + 1)..n
            alternates ==
                /\ n >= 2 * t
                /\ \A i, j \in window : (i - j) % 2 = 0 => h[i] = h[j]
                /\ h[n] # h[n - 1]
            labels == {h[i] : i \in window \cap 1..n}
        IN /\ files[get_state_history_path(detector, last.agent_id)] = h
           /\ IsDetection(last.ret, "StateOscillation") <=> alternates
           /\ ~alternates => last.ret = None
           /\ Cardinality(labels) # 2 => last.ret = None
           /\ IsDetection(last.ret, "StateOscillation") =>
                 /\ last.ret.loop_count = t
                 /\ last.ret.agent_id = last.agent_id

C4_Witness ==
    /\ last.op = "check_state_oscillation"
    /\ IsDetection(last.ret, "StateOscillation")
    /\ detector.state_oscillation_threshold = 10
    /\ Len(StatesOf(log, last.agent_id)) > StateHistoryCap

----------------------------------------------------------------------------
(* SpecAll: check_all_loops calls for one fresh agent, default thresholds  *)

AgentsAll == {"agent1"}
PromptsAll == {P1, P2, Q1}
StatesAll == {"A", "B", "C"}

AllCall(agent_id, prompt, state) ==
    /\ Len(log) < MaxCallsAll
    /\ CheckAllLoops(agent_id, prompt, state, NoFaults, 0)
    /\ log' = Append(log, Entry(last'))
    /\ UNCHANGED <<solo, files2, detector2, last2, pc, local, returned>>

NextAll ==
    \E agent_id \in AgentsAll, prompt \in PromptsAll, state \in StatesAll :
        AllCall(agent_id, prompt, state)

SpecAll == Init /\ [][NextAll]_vars

(* No call so far returned ExactLoop or SemanticLoop *)
NoPromptLoop(lg) ==
    \A i \in 1..Len(lg) :
        /\ ~IsDetection(lg[i].ret, "ExactLoop")
        /\ ~IsDetection(lg[i].ret, "SemanticLoop")

(* C3: with state_oscillation_threshold = 3, the states A,B,A,B,A,B        *)
(* (A # B) submitted on six successive check_all_loops calls of a fresh    *)
(* agent, none of whose prompts triggers the exact or the semantic check,  *)
(* give StateOscillation on the sixth call; A,B,C,A,B,C submitted the same *)
(* way gives StateOscillation on no call.                                  *)
C3_AlternationFiresOnSixthCall ==
    (last.op = "check_all_loops" /\ NoPromptLoop(log)) =>
        LET submitted == StatesOf(log, last.agent_id)
        IN /\ \A a, b \in StatesAll :
                (a # b /\ submitted = <<a, b, a, b, a, b>>)
                    => IsDetection(last.ret, "StateOscillation")
           /\ \A a, b, c \in StatesAll :
                (Cardinality({a, b, c}) = 3
                    /\ submitted = SubSeq(<<a, b, c, a, b, c>>, 1, Len(log)))
                    => ~IsDetection(last.ret, "StateOscillation")

(* The prompts submitted so far for an agent, oldest first *)
RECURSIVE PromptsOf(_, _)
PromptsOf(lg, agent_id) ==
    IF lg = <<>> THEN <<>>
    ELSE LET rest == PromptsOf(SubSeq(lg, 1, Len(lg) - 1), agent_id)
             e == lg[Len(lg)]
         IN IF e.agent_id = agent_id THEN Append(rest, e.prompt) ELSE rest

(* C6: every check_all_loops call, whatever it returns, appends exactly    *)
(* one record to the agent's prompt history, exactly one record to its     *)
(* state history, and adds exactly one to the count of the prompt's hash:  *)
(* after n calls the documents hold the n prompts, the n states and the    *)
(* number of calls made with each prompt.                                  *)
C6_OneRecordPerCall ==
    last.op = "check_all_loops" =>
        LET a == last.agent_id
        IN /\ files[get_prompt_history_path(detector, a)]
                 = LastN(PromptsOf(log, a), PromptHistoryCap)
           /\ files[get_state_history_path(detector, a)]
                 = LastN(StatesOf(log, a), StateHistoryCap)
           /\ \A p \in PromptsAll :
                 HashCount(files[get_prompt_hashes_path(detector, a)],
                           hash_prompt(p)) = NthCall(log, a, p)

----------------------------------------------------------------------------
(* Every call so far was made with this prompt and this state *)
Repeated(lg, prompt, state) ==
    /\ lg # <<>>
    /\ \A i \in 1..Len(lg) :
          /\ lg[i].op = "check_all_loops"
          /\ lg[i].agent_id = lg[1].agent_id
          /\ lg[i].prompt = prompt
          /\ lg[i].state = state

(* C33: with the default thresholds, when the same prompt and the same     *)
(* state are submitted repeatedly through check_all_loops for a fresh      *)
(* agent, the first three calls return no detection and the fourth call    *)
(* returns an ExactLoop detection for that agent whose loop_count is 4.    *)
C33_FourthRepeatIsExactLoop ==
    \A prompt \in PromptsAll, state \in StatesAll :
        Repeated(log, prompt, state) =>
            LET ret == log[Len(log)].ret
            IN /\ Len(log) <= 3 => ret = None
               /\ Len(log) = 4 =>
                     /\ IsDetection(ret, "ExactLoop")
                     /\ ret.agent_id = log[1].agent_id
                     /\ ret.loop_count = 4

(* What the code does: the first two calls return no detection, and the    *)
(* k-th call from the third on returns ExactLoop with loop_count = k       *)
C33_ThirdRepeatIsExactLoop ==
    \A prompt \in PromptsAll, state \in StatesAll :
        Repeated(log, prompt, state) =>
            LET ret == log[Len(log)].ret
            IN /\ Len(log) <= 2 => ret = None
               /\ Len(log) >= 3 =>
                     /\ IsDetection(ret, "ExactLoop")
                     /\ ret.agent_id = log[1].agent_id
                     /\ ret.loop_count = Len(log)

----------------------------------------------------------------------------
(* SpecOrder: check_all_loops calls for one fresh agent with three prompts *)
(* that differ only in word order or letter case, and a fourth one         *)

AgentsOrder == {"agent1"}
PromptsOrder == {P1, P2, P3, Q1}
StatesOrder == {"A", "B"}

OrderCall(agent_id, prompt, state) ==
    /\ Len(log) < MaxCallsOrder
    /\ CheckAllLoops(agent_id, prompt, state, NoFaults, 0)
    /\ log' = Append(log, Entry(last'))
    /\ UNCHANGED <<solo, files2, detector2, last2, pc, local, returned>>

NextOrder ==
    \E agent_id \in AgentsOrder, prompt \in PromptsOrder,
       state \in StatesOrder :
        OrderCall(agent_id, prompt, state)

SpecOrder == Init /\ [][NextOrder]_vars

(* The exact condition: the prompt has been submitted threshold times *)
ExactCondition ==
    NthCall(log, last.agent_id, last.prompt) >= detector.exact_loop_threshold

(* The semantic condition: semantic_loop_threshold of the most recent      *)
(* semantic_loop_threshold recorded prompts are similar to the prompt      *)
SemanticCondition ==
    LET recorded == PromptsOf(log, last.agent_id)
        n == detector.semantic_loop_threshold
    IN Cardinality({i \in 1..Len(recorded) :
            /\ i > Len(recorded) - n
            /\ LET j == jaccard_similarity(last.prompt, recorded[i])
               IN j.num * 100 > SimilarityThresholdPct * j.den}) >= n

(* The oscillation condition on the persisted state history *)
OscillationCondition ==
    LET h == files[get_state_history_path(detector, last.agent_id)]
        t == detector.state_oscillation_threshold
        n == Len(h)
    IN /\ n >= 2 * t
       /\ \A i, j \in (n - 2 * t + 1)..n : (i - j) % 2 = 0 => h[i] = h[j]
       /\ h[n] # h[n - 1]

(* C5: check_all_loops evaluates the exact, the semantic and the           *)
(* oscillation check in that order and returns the first that fires:       *)
(* ExactLoop whenever the exact condition holds, SemanticLoop only when    *)
(* the exact check did not fire, StateOscillation only when neither of     *)
(* the other two fired, and no detection only when none fires.             *)
C5_FirstCheckWins ==
    last.op = "check_all_loops" =>
        /\ IsDetection(last.ret, "ExactLoop") <=> ExactCondition
        /\ IsDetection(last.ret, "SemanticLoop")
             <=> (~ExactCondition /\ SemanticCondition)
        /\ IsDetection(last.ret, "StateOscillation")
             <=> (~ExactCondition /\ ~SemanticCondition
                    /\ OscillationCondition)
        /\ last.ret = None
             <=> (~ExactCondition /\ ~SemanticCondition
                    /\ ~OscillationCondition)

C5_Witness ==
    /\ last.op = "check_all_loops"
    /\ IsDetection(last.ret, "ExactLoop")
    /\ SemanticCondition

(* C13: check_all_loops returns SemanticLoop only if at least               *)
(* semantic_loop_threshold of the prompts recorded for that agent on       *)
(* earlier turns (among the most recent semantic_loop_threshold history    *)
(* entries) are each similar to the current prompt above the similarity    *)
(* threshold; the current turn's own prompt is not counted.                *)
C13_SemanticCountsEarlierPrompts ==
    IsDetection(last.ret, "SemanticLoop") =>
        LET recorded == PromptsOf(log, last.agent_id)
            earlier == SubSeq(recorded, 1, Len(recorded) - 1)
            n == detector.semantic_loop_threshold
        IN Cardinality({i \in 1..Len(earlier) :
               /\ i > Len(earlier) - n
               /\ exceeds(jaccard_similarity(last.prompt, earlier[i]),
                          SimilarityThresholdPct)}) >= n

----------------------------------------------------------------------------
(* SpecAgents: check_all_loops calls of two agents in any order.  solo[a]  *)
(* is the file system as it would be had only agent a made its calls, and  *)
(* last2 the outcome of the latest call when made on that file system.     *)

AgentsAgents == Agents
PromptsAgents == {P1, Q1}
StatesAgents == {"A", "B"}

AgentsCall(agent_id, prompt, state) ==
    /\ Len(log) < MaxCallsAgents
    /\ CheckAllLoops(agent_id, prompt, state, NoFaults, 0)
    /\ LET r == check_all_loops(detector, solo[agent_id], NoFaults, 0,
                                agent_id, prompt, state)
       IN /\ solo' = [solo EXCEPT ![agent_id] = r.files]
          /\ last2' = Call("check_all_loops", agent_id, prompt, state, r,
                           NoFaults)
    /\ log' = Append(log, Entry(last'))
    /\ UNCHANGED <<files2, detector2, pc, local, returned>>

NextAgents ==
    \E agent_id \in AgentsAgents, prompt \in PromptsAgents,
       state \in StatesAgents :
        AgentsCall(agent_id, prompt, state)

SpecAgents == Init /\ [][NextAgents]_vars

(* The persisted documents of an agent: its three documents, or "absent" *)
Document(fsys, path) == IF path \in DOMAIN fsys THEN <<fsys[path]>> ELSE <<>>

AgentDocuments(fsys, agent_id) ==
    [hashes |-> Document(fsys, get_prompt_hashes_path(detector, agent_id)),
     history |-> Document(fsys, get_prompt_history_path(detector, agent_id)),
     state |-> Document(fsys, get_state_history_path(detector, agent_id))]

(* C8: loop-detector calls for one agent never affect another agent: the   *)
(* persisted hash counts, prompt history and state history of every agent  *)
(* are what that agent's own calls alone produce, and every detection is   *)
(* the one returned had no other agent made a call.                        *)
C8_AgentsIndependent ==
    /\ \A a \in AgentsAgents :
          AgentDocuments(files, a) = AgentDocuments(solo[a], a)
    /\ last.op = "check_all_loops" => last.ret = last2.ret

C8_Witness ==
    /\ last.op = "check_all_loops"
    /\ IsDetection(last.ret, "ExactLoop")
    /\ \E i \in 1..Len(log) :
          /\ log[i].agent_id # last.agent_id
          /\ log[i].prompt = last.prompt
          /\ \E j \in 1..i : log[j].agent_id = last.agent_id

----------------------------------------------------------------------------
(* SpecFault: the four checks called on one agent while one read or one    *)
(* write of one of its documents fails (or none does)                      *)

AgentsFault == {"agent1"}
PromptsFault == {P1}
StatesFault == {"A", "B"}

Faults ==
    {NoFaults} \cup
    {{<<op, path>>} :
        op \in {"read", "write"},
        path \in UNION {{get_prompt_hashes_path(detector, a),
                         get_prompt_history_path(detector, a),
                         get_state_history_path(detector, a)} :
                        a \in AgentsFault}}

FaultExact(agent_id, prompt, faulty) ==
    /\ Len(log) < MaxCallsFault
    /\ CheckExactLoop(agent_id, prompt, faulty, 0)
    /\ log' = Append(log, Entry(last'))
    /\ UNCHANGED <<solo, files2, detector2, last2, pc, local, returned>>

FaultSemantic(agent_id, prompt, faulty) ==
    /\ Len(log) < MaxCallsFault
    /\ CheckSemanticLoop(agent_id, prompt, faulty, 0)
    /\ log' = Append(log, Entry(last'))
    /\ UNCHANGED <<solo, files2, detector2, last2, pc, local, returned>>

FaultOscillation(agent_id, state, faulty) ==
    /\ Len(log) < MaxCallsFault
    /\ CheckStateOscillation(agent_id, state, faulty, 0)
    /\ log' = Append(log, Entry(last'))
    /\ UNCHANGED <<solo, files2, detector2, last2, pc, local, returned>>

FaultAll(agent_id, prompt, state, faulty) ==
    /\ Len(log) < MaxCallsFault
    /\ CheckAllLoops(agent_id, prompt, state, faulty, 0)
    /\ log' = Append(log, Entry(last'))
    /\ UNCHANGED <<solo, files2, detector2, last2, pc, local, returned>>

NextFault ==
    \/ \E agent_id \in AgentsFault, prompt \in PromptsFault,
          faulty \in Faults :
           FaultExact(agent_id, prompt, faulty)
    \/ \E agent_id \in AgentsFault, prompt \in PromptsFault,
          faulty \in Faults :
           FaultSemantic(agent_id, prompt, faulty)
    \/ \E agent_id \in AgentsFault, state \in StatesFault,
          faulty \in Faults :
           FaultOscillation(agent_id, state, faulty)
    \/ \E agent_id \in AgentsFault, prompt \in PromptsFault,
          state \in StatesFault, faulty \in Faults :
           FaultAll(agent_id, prompt, state, faulty)

SpecFault == Init /\ [][NextFault]_vars

(* C10: whenever a read or a write of an agent's persisted loop state      *)
(* fails during check_exact_loop, check_semantic_loop,                     *)
(* check_state_oscillation or check_all_loops, the call returns an error,  *)
(* never "no loop" and never a detection.                                  *)
C10_FailedIoReturnsError ==
    (last.io \cap last.faulty) # {} => last.ret = Err

(* The call made by this step was check_all_loops and one of its reads or  *)
(* writes failed                                                           *)
AllLoopsFailed ==
    /\ last'.op = "check_all_loops"
    /\ log' # log
    /\ (last'.io \cap last'.faulty) # {}

(* C34: check_all_loops is all-or-nothing with respect to persistence: if  *)
(* any read or write of the agent's persisted state fails during the call, *)
(* none of that call's updates is persisted - the prompt history, state    *)
(* history and hash counts on disk are exactly as before the call.         *)
C34_FailedCallPersistsNothing ==
    [][AllLoopsFailed => files' = files]_vars

(* What the code does: the documents are as before the call only when the  *)
(* failure is in the first two steps of the call, the read of an existing  *)
(* prompt history or its write; after a later failure the prompt is        *)
(* recorded                                                                *)
C34_EarlierStepsStayPersisted ==
    [][AllLoopsFailed =>
          LET path == get_prompt_history_path(detector, last'.agent_id)
              before == IF path \in DOMAIN files THEN files[path] ELSE <<>>
              first_step ==
                  \/ <<"write", path>> \in last'.faulty
                  \/ /\ <<"read", path>> \in last'.faulty
                     /\ path \in DOMAIN files
          IN /\ first_step => files' = files
             /\ ~first_step =>
                   files'[path] = PushCapped(before, last'.prompt,
                                             PromptHistoryCap)]_vars

C10_Witness ==
    /\ last.op = "check_all_loops"
    /\ <<"read", get_prompt_hashes_path(detector, last.agent_id)>>
           \in (last.io \cap last.faulty)
    /\ last.ret = Err

----------------------------------------------------------------------------
(* SpecReplay: the same check_all_loops calls made in two runs that start  *)
(* from the same persisted state.  The first run keeps one LoopDetector;   *)
(* the second may discard it and build a new one before any call (a        *)
(* process restart).  The clocks of the two runs are unrelated.            *)

AgentsReplay == {"agent1"}
PromptsReplay == {P1, Q1}
StatesReplay == {"A"}

(* The file system after n check_all_loops("agent1", P1, "A") calls *)
RECURSIVE Persisted(_)
Persisted(n) ==
    IF n = 0 THEN <<>>
    ELSE check_all_loops(LoopDetector_new(SwarmConfig_default),
                         Persisted(n - 1), NoFaults, 0, "agent1", P1,
                         "A").files

InitReplay ==
    /\ InitCommon
    /\ detector = LoopDetector_new(SwarmConfig_default)
    /\ log = <<>>
    /\ \E n \in 0..MaxPersisted :
          /\ files = Persisted(n)
          /\ files2 = Persisted(n)

ReplayCall(agent_id, prompt, state, now, now2, fresh) ==
    /\ Len(log) < MaxCallsReplay
    /\ CheckAllLoops(agent_id, prompt, state, NoFaults, now)
    /\ LET d2 == IF fresh THEN LoopDetector_new(SwarmConfig_default)
                 ELSE detector2
           r == check_all_loops(d2, files2, NoFaults, now2, agent_id, prompt,
                                state)
       IN /\ files2' = r.files
          /\ detector2' = d2
          /\ last2' = [Call("check_all_loops", agent_id, prompt, state, r,
                            NoFaults) EXCEPT !.fresh = fresh]
    /\ log' = Append(log, Entry(last'))
    /\ UNCHANGED <<solo, pc, local, returned>>

NextReplay ==
    \E agent_id \in AgentsReplay, prompt \in PromptsReplay,
       state \in StatesReplay, now \in Clock, now2 \in Clock,
       fresh \in BOOLEAN :
        ReplayCall(agent_id, prompt, state, now, now2, fresh)

SpecReplay == InitReplay /\ [][NextReplay]_vars

SameDetection(r1, r2) ==
    /\ r1.kind = r2.kind
    /\ r1.detection_type = r2.detection_type
    /\ r1.agent_id = r2.agent_id
    /\ r1.loop_count = r2.loop_count
    /\ r1.prompt_hash = r2.prompt_hash

----------------------------------------------------------------------------
(* SpecCorrupt: the four checks called while one persisted document of     *)
(* agent1 holds text that is not valid JSON.  No check rewrites a document *)
(* it could not load, so the document stays corrupt during the behaviour;  *)
(* last.faulty carries it from call to call.                               *)

AgentsCorrupt == Agents
PromptsCorrupt == {P1}
StatesCorrupt == {"A"}

Corruptions ==
    {NoFaults} \cup
    {{<<"parse", path>>} :
        path \in {get_prompt_hashes_path(detector, "agent1"),
                  get_prompt_history_path(detector, "agent1"),
                  get_state_history_path(detector, "agent1")}}

(* Both agents have made n check_all_loops calls; then a document of *)
(* agent1 may have been damaged                                       *)
InitCorrupt ==
    /\ InitIdle
    /\ detector = LoopDetector_new(SwarmConfig_default)
    /\ log = <<>>
    /\ files2 = <<>>
    /\ \E n \in 1..MaxPersisted :
          files = check_all_loops(detector, Persisted(n), NoFaults, 0,
                                  "agent2", P1, "A").files
    /\ \E corrupt \in Corruptions : last = [NoCall EXCEPT !.faulty = corrupt]

CorruptExact(agent_id, prompt) ==
    /\ Len(log) < MaxCallsCorrupt
    /\ CheckExactLoop(agent_id, prompt, last.faulty, 0)
    /\ log' = Append(log, Entry(last'))
    /\ UNCHANGED <<solo, files2, detector2, last2, pc, local, returned>>

CorruptSemantic(agent_id, prompt) ==
    /\ Len(log) < MaxCallsCorrupt
    /\ CheckSemanticLoop(agent_id, prompt, last.faulty, 0)
    /\ log' = Append(log, Entry(last'))
    /\ UNCHANGED <<solo, files2, detector2, last2, pc, local, returned>>

CorruptOscillation(agent_id, state) ==
    /\ Len(log) < MaxCallsCorrupt
    /\ CheckStateOscillation(agent_id, state, last.faulty, 0)
    /\ log' = Append(log, Entry(last'))
    /\ UNCHANGED <<solo, files2, detector2, last2, pc, local, returned>>

CorruptAll(agent_id, prompt, state) ==
    /\ Len(log) < MaxCallsCorrupt
    /\ CheckAllLoops(agent_id, prompt, state, last.faulty, 0)
    /\ log' = Append(log, Entry(last'))
    /\ UNCHANGED <<solo, files2, detector2, last2, pc, local, returned>>

NextCorrupt ==
    \/ \E agent_id \in AgentsCorrupt, prompt \in PromptsCorrupt :
           CorruptExact(agent_id, prompt)
    \/ \E agent_id \in AgentsCorrupt, prompt \in PromptsCorrupt :
           CorruptSemantic(agent_id, prompt)
    \/ \E agent_id \in AgentsCorrupt, state \in StatesCorrupt :
           CorruptOscillation(agent_id, state)
    \/ \E agent_id \in AgentsCorrupt, prompt \in PromptsCorrupt,
          state \in StatesCorrupt :
           CorruptAll(agent_id, prompt, state)

SpecCorrupt == InitCorrupt /\ [][NextCorrupt]_vars

(* C11: when a persisted per-agent file (hash counts, prompt history or    *)
(* state history) exists but fails to parse, the loop detector treats it   *)
(* as an empty history and the call completes normally for that agent      *)
(* instead of returning an error.                                          *)
C11_CorruptFileTreatedAsEmpty ==
    (\E path \in DOMAIN files :
        <<"parse", path>> \in (last.io \cap last.faulty)) => last.ret # Err

(* What holds instead: the call that parses the corrupt file returns an    *)
(* error and leaves the file as it was, while the other agent's calls      *)
(* complete.                                                               *)
C11_CorruptFileReturnsError ==
    /\ (\E path \in DOMAIN files :
           <<"parse", path>> \in (last.io \cap last.faulty)) => last.ret = Err
    /\ last.agent_id = "agent2" => last.ret # Err

----------------------------------------------------------------------------
(* SpecRace: two processes (hook invocations) run check_exact_loop at the  *)
(* same time.  Nothing locks the hashes document, so the load (lines       *)
(* 147-149) and the save (lines 150-162) of the two calls interleave.      *)

AgentsRace == {"agent1"}
PromptsRace == {P1, P2}

(* The calls made before the processes start, and the documents they left *)
RECURSIVE RaceLog(_)
RaceLog(n) ==
    IF n = 0 THEN <<>>
    ELSE Append(RaceLog(n - 1),
                [op |-> "check_exact_loop", agent_id |-> "agent1",
                 prompt |-> P1, state |-> "", ret |-> None])

RECURSIVE RaceFiles(_)
RaceFiles(n) ==
    IF n = 0 THEN <<>>
    ELSE check_exact_loop(LoopDetector_new(SwarmConfig_default),
                          RaceFiles(n - 1), NoFaults, 0, "agent1", P1).files

InitRace ==
    /\ InitCommon
    /\ detector = LoopDetector_new(SwarmConfig_default)
    /\ files2 = <<>>
    /\ \E n \in 0..MaxPersisted :
          /\ files = RaceFiles(n)
          /\ log = RaceLog(n)

InFlight == Cardinality({p \in Procs : pc[p] = "loaded"})

(* lines 145-149: hash the prompt, load the counts, increment in memory *)
RaceLoad(p, agent_id, prompt) ==
    /\ pc[p] = "idle"
    /\ Len(log) + InFlight < MaxCallsRace
    /\ LET l == load_hashes(detector, files, NoFaults, agent_id)
           count == HashCount(l.val, hash_prompt(prompt))
       IN local' = [local EXCEPT ![p] =
                       [agent_id |-> agent_id, prompt |-> prompt,
                        hashes |-> HashInsert(l.val, hash_prompt(prompt),
                                              count + 1),
                        count |-> count]]
    /\ pc' = [pc EXCEPT ![p] = "loaded"]
    /\ UNCHANGED <<files, detector, last, log, solo, files2, detector2,
                   last2, returned, sim, monitor, monitor0, mlog,
                   compressor>>

(* lines 150-162: save the counts, compare with the threshold, return *)
RaceSave(p) ==
    /\ pc[p] = "loaded"
    /\ LET s == save_hashes(detector, files, NoFaults, local[p].agent_id,
                            local[p].hashes)
           ret == IF exact_fires(local[p].count, detector.exact_loop_threshold)
                  THEN LoopDetection("ExactLoop", local[p].agent_id,
                                     local[p].count + 1,
                                     hash_prompt(local[p].prompt), 0)
                  ELSE None
       IN /\ files' = s.files
          /\ returned' = [returned EXCEPT ![p] = ret]
          /\ last' = Call("check_exact_loop", local[p].agent_id,
                          local[p].prompt, "",
                          [ret |-> ret, io |-> s.io], NoFaults)
    /\ log' = Append(log, Entry(last'))
    /\ pc' = [pc EXCEPT ![p] = "idle"]
    /\ UNCHANGED <<detector, local, solo, files2, detector2, last2, sim,
                   monitor, monitor0, mlog,
                   compressor>>

NextRace ==
    \/ \E p \in Procs, agent_id \in AgentsRace, prompt \in PromptsRace :
          RaceLoad(p, agent_id, prompt)
    \/ \E p \in Procs : RaceSave(p)

SpecRace == InitRace /\ [][NextRace]_vars

(* C7: the read-modify-write of the persisted counts is atomic per agent:  *)
(* when check_exact_loop calls for one agent run concurrently no increment *)
(* is lost - once the calls have returned the persisted count of a hash is *)
(* the number of calls made with its prompt - and when that number has     *)
(* reached the threshold one of the calls has returned ExactLoop.          *)
C7_NoLostIncrement ==
    (\A p \in Procs : pc[p] = "idle") =>
        \A a \in AgentsRace, prompt \in PromptsRace :
            LET path == get_prompt_hashes_path(detector, a)
                hashes == IF path \in DOMAIN files THEN files[path] ELSE <<>>
                n == NthCall(log, a, prompt)
            IN /\ HashCount(hashes, hash_prompt(prompt)) = n
               /\ n >= detector.exact_loop_threshold =>
                     \E i \in 1..Len(log) :
                         /\ log[i].agent_id = a
                         /\ log[i].prompt = prompt
                         /\ IsDetection(log[i].ret, "ExactLoop")

----------------------------------------------------------------------------
(* SpecSim: semantic_similarity applied once to two prompts, by a detector *)
(* built with LoopDetector::new or with an engine that has a model loaded  *)
(* and may fail on either prompt                                           *)

MaxWords == 2

WordsSim == {"a", "A", "b", "c"}

PromptsSim == UNION {[1..n -> WordsSim] : n \in 0..MaxWords}

CosinesSim == {[num |-> 1, den |-> 2], [num |-> -1, den |-> 1]}

EnginesSim(prompt1, prompt2) ==
    {SemanticEngine_new} \cup
    {[loaded |-> TRUE, failing |-> f, cosine |-> c] :
        f \in SUBSET {prompt1, prompt2}, c \in CosinesSim}

InitSim ==
    /\ last = NoCall
    /\ compressor = TrajectoryCompressor_new
    /\ InitLoopIdle
    /\ Fresh
    /\ monitor = EnhancedMonitor_new(200000)
    /\ monitor0 = monitor
    /\ mlog = <<>>
    /\ \E prompt1 \in PromptsSim, prompt2 \in PromptsSim :
          /\ sim = [NoSim EXCEPT !.prompt1 = prompt1, !.prompt2 = prompt2]
          /\ \E engine \in EnginesSim(prompt1, prompt2) :
                detector = with_semantic_engine(SwarmConfig_default, engine)

SemanticSimilarity ==
    /\ ~sim.done
    /\ sim' = [sim EXCEPT
                  !.jaccard = jaccard_similarity(sim.prompt1, sim.prompt2),
                  !.semantic = semantic_similarity(detector, sim.prompt1,
                                                   sim.prompt2),
                  !.done = TRUE]
    /\ UNCHANGED <<files, detector, last, log, solo, files2, detector2,
                   last2, pc, local, returned, monitor, monitor0, mlog,
                   compressor>>

NextSim == SemanticSimilarity

SpecSim == InitSim /\ [][NextSim]_vars

(* The lower-cased words of a prompt *)
LowerWords(prompt) == {to_lowercase(prompt[i]) : i \in DOMAIN prompt}

(* C14: for any two strings, including empty ones, the Jaccard fallback    *)
(* returns a value between 0 and 1 inclusive, |common words| / |all words| *)
(* over the lower-cased words, and 0 when either string has no words; and  *)
(* semantic_similarity falls back to this value whenever the embedding     *)
(* provider is not loaded or returns an error.                             *)
C14_JaccardInUnitIntervalAndFallback ==
    sim.done =>
        LET w1 == LowerWords(sim.prompt1)
            w2 == LowerWords(sim.prompt2)
            engine == detector.semantic_engine
        IN /\ sim.jaccard.den > 0
           /\ 0 <= sim.jaccard.num
           /\ sim.jaccard.num <= sim.jaccard.den
           /\ (w1 = {} \/ w2 = {}) => sim.jaccard.num = 0
           /\ (w1 # {} /\ w2 # {}) =>
                  sim.jaccard.num * Cardinality(w1 \cup w2)
                      = Cardinality(w1 \cap w2) * sim.jaccard.den
           /\ (\/ ~engine.loaded
               \/ sim.prompt1 \in engine.failing
               \/ sim.prompt2 \in engine.failing) =>
                  sim.semantic = sim.jaccard

C14_Witness ==
    /\ sim.done
    /\ sim.prompt1 = Empty
    /\ sim.prompt2 = Empty
    /\ detector.use_semantic
    /\ sim.prompt2 \in detector.semantic_engine.failing
    /\ sim.semantic = [num |-> 0, den |-> 1]

----------------------------------------------------------------------------
(* SpecBudget: track_usage and reallocate_budget on a monitor built by     *)
(* EnhancedMonitor::new, by new_resource_manager or by with_auto_reduce    *)
(* with auto-reduction on, on which some turns may already be recorded     *)

MaxCallsBudget == 2

AgentsBudget == {"agent1", "agent2", "agent3"}
ContributionsBudget == {25, 50, 75}
TotalsBudget == {0, 10, 20000, 100000}

MonitorsBudget ==
    {EnhancedMonitor_new(200000),
     new_resource_manager(100000),
     with_auto_reduce(200000, TRUE, 20, 30)}

(* The contributions already recorded, agent by agent: none; a low, a      *)
(* middle and a high contributor; means of exactly 0.3 and exactly 0.7     *)
TurnsBefore ==
    {<<>>,
     <<<<"agent1", 25>>>>,
     <<<<"agent1", 25>>, <<"agent2", 50>>>>,
     <<<<"agent1", 25>>, <<"agent2", 50>>, <<"agent3", 75>>>>,
     <<<<"agent1", 25>>, <<"agent1", 25>>, <<"agent1", 25>>,
       <<"agent1", 25>>, <<"agent1", 50>>,
       <<"agent2", 75>>, <<"agent2", 75>>, <<"agent2", 75>>,
       <<"agent2", 75>>, <<"agent2", 50>>>>}

(* The monitor after these track_usage calls *)
RECURSIVE Tracked(_, _)
Tracked(m, turns) ==
    IF turns = <<>> THEN m
    ELSE LET t == turns[Len(turns)]
         IN track_usage(Tracked(m, SubSeq(turns, 1, Len(turns) - 1)),
                        t[1], 100, t[2], 1)

InitBudget ==
    /\ InitLoopUnused
    /\ mlog = <<>>
    /\ \E m \in MonitorsBudget, turns \in TurnsBefore :
          monitor = Tracked(m, turns)
    /\ monitor0 = monitor

BudgetTrack(agent_id, contribution) ==
    /\ Len(mlog) < MaxCallsBudget
    /\ TrackUsage(agent_id, 100, contribution, 1)

BudgetReallocate(total, order) ==
    /\ Len(mlog) < MaxCallsBudget
    /\ ReallocateBudget(total, order)

NextBudget ==
    \/ \E agent_id \in AgentsBudget, contribution \in ContributionsBudget :
          BudgetTrack(agent_id, contribution)
    \/ \E total \in TotalsBudget,
          order \in Orders(DOMAIN monitor.agent_usage_history) :
          BudgetReallocate(total, order)

SpecBudget == InitBudget /\ [][NextBudget]_vars

Reallocated == mlast.op = "reallocate_budget"

TrackedAgents == DOMAIN monitor.agent_usage_history

(* C15: for every total and every number of tracked agents, the            *)
(* BudgetAllocation returned by reallocate_budget satisfies                *)
(* per_agent * agent_count + safety_reserve <= total.                      *)
C15_SharesPlusReserveWithinTotal ==
    Reallocated =>
        mlast.ret.per_agent * Cardinality(TrackedAgents)
            + mlast.ret.safety_reserve <= mlast.total

C15_Witness ==
    /\ Reallocated
    /\ Cardinality(TrackedAgents) = 3
    /\ mlast.total = 10
    /\ mlast.ret.per_agent * 3 + mlast.ret.safety_reserve = 10

(* C16: for all totals, the safety_reserve returned by reallocate_budget   *)
(* and stored in the monitor's SwarmBudget equals round(0.15 * total).     *)
C16_ReserveIsRounded ==
    Reallocated =>
        /\ mlast.ret.safety_reserve = safety_reserve_rounded(mlast.total)
        /\ monitor.budget.safety_reserve = safety_reserve_rounded(mlast.total)

(* What holds instead: the reserve is 0.15 * total truncated *)
C16_ReserveIsTruncated ==
    Reallocated =>
        /\ mlast.ret.safety_reserve * 100 <= 15 * mlast.total
        /\ 15 * mlast.total < (mlast.ret.safety_reserve + 1) * 100
        /\ monitor.budget.safety_reserve = mlast.ret.safety_reserve

(* C17: after any reallocate_budget call in which a reduction was applied  *)
(* to at least one agent, every value in the stored SwarmBudget's          *)
(* allocated map is >= min_per_agent.                                      *)
C17_AllocationsAtLeastMinimum ==
    (/\ Reallocated
     /\ \E i \in 1..Len(mlast.ret.adjustments) :
           mlast.ret.adjustments[i].kind = "Reduced budget") =>
        \A id \in DOMAIN monitor.budget.allocated :
            monitor.budget.allocated[id] >= monitor.budget.min_per_agent

(* The notes of the given kind issued for an agent *)
NotesOf(adjustments, kind, id) ==
    Cardinality({i \in 1..Len(adjustments) :
        adjustments[i] = [kind |-> kind, agent_id |-> id]})

MeanBelow(turns, pct) == SumOf(Contributions(turns)) < pct * Len(turns)

MeanAbove(turns, pct) == SumOf(Contributions(turns)) > pct * Len(turns)

C19_SmallTotalIsReported ==
    (/\ Reallocated
     /\ mlast.total < monitor.budget.min_per_agent * Cardinality(TrackedAgents)
                          + mlast.ret.safety_reserve) =>
        /\ mlast.ret.flag
        /\ \E i \in 1..Len(mlast.ret.adjustments) :
              mlast.ret.adjustments[i].kind
                  \notin {"Reduced budget", "Potential prune",
                          "High contributor"}

----------------------------------------------------------------------------
(* SpecCaps: check_all_loops, record_token_usage,                          *)
(* record_context_percentage and track_usage for one agent, started either *)
(* on fresh state or on histories one entry short of their caps            *)

MaxCallsCaps == 3
LoopCallsBefore == 49
TokensBefore == 99
ContextBefore == 999
TurnsRecordedBefore == 9

PromptsCaps == {P1, Q1}
StatesCaps == {"A", "B"}
TokensCaps == {1, 2000}
PercentagesCaps == {10, 90}
ContributionsCaps == {25, 75}

(* The calls check_all_loops("agent1", Q1, A), (.., P1, B), (.., Q1, A),   *)
(* .. made before the run starts.  The first four return no detection and  *)
(* record the label twice, the later ones return ExactLoop and record it   *)
(* once.                                                                   *)
CapsPrompt(i) == IF i % 2 = 1 THEN Q1 ELSE P1

CapsPushes(n) ==
    [j \in 1..(IF n <= 4 THEN 2 * n ELSE n + 4) |->
        IF j <= 8 THEN OscLabel((j + 1) \div 2) ELSE OscLabel(j - 4)]

(* The documents the first n of these calls leave *)
CapsFiles(n) ==
    IF n = 0 THEN <<>>
    ELSE LET d == LoopDetector_new(SwarmConfig_default)
         IN [p \in {get_prompt_history_path(d, "agent1"),
                    get_state_history_path(d, "agent1"),
                    get_prompt_hashes_path(d, "agent1")} |->
               IF p = get_prompt_history_path(d, "agent1")
               THEN LastN([i \in 1..n |-> CapsPrompt(i)], PromptHistoryCap)
               ELSE IF p = get_state_history_path(d, "agent1")
                    THEN LastN(CapsPushes(n), StateHistoryCap)
                    ELSE [h \in {hash_prompt(CapsPrompt(i)) : i \in 1..n} |->
                             IF h = hash_prompt(Q1) THEN (n + 1) \div 2
                             ELSE n \div 2]]

(* The i-th of these calls, made on what its predecessors left *)
CapsBefore(i) ==
    check_all_loops(LoopDetector_new(SwarmConfig_default), CapsFiles(i - 1),
                    NoFaults, 0, "agent1", CapsPrompt(i), OscLabel(i))

(* The monitor after TokensBefore record_token_usage, ContextBefore        *)
(* record_context_percentage and TurnsRecordedBefore track_usage calls     *)
(* for agent1, the i-th with i tokens, at time i, at i % 100 percent       *)
MonitorBefore ==
    LET before == [EnhancedMonitor_new(200000) EXCEPT
            !.agent_token_history =
                [a \in {"agent1"} |->
                    [i \in 1..(TokensBefore - 1) |->
                        [tokens |-> i, timestamp |-> i]]],
            !.context_percentage_history =
                [i \in 1..(ContextBefore - 1) |->
                    [percentage |-> i % 100, timestamp |-> i]],
            !.context_trend =
                LastN([i \in 1..(ContextBefore - 1) |-> i % 100],
                      ContextTrendCap),
            !.agent_usage_history =
                [a \in {"agent1"} |->
                    [i \in 1..(TurnsRecordedBefore - 1) |->
                        [turn_number |-> i - 1, contribution |-> 50,
                         tokens_used |-> 100 + i, tasks_completed |-> 1]]],
            !.turn_counter = TurnsRecordedBefore - 1]
        tokens == record_token_usage(before, "agent1", TokensBefore,
                                     TokensBefore, TRUE).monitor
        context == record_context_percentage(tokens, ContextBefore % 100,
                                             ContextBefore)
    IN track_usage(context, "agent1", 100 + TurnsRecordedBefore, 50, 1)

InitCaps ==
    /\ InitLoopIdle
    /\ compressor = TrajectoryCompressor_new
    /\ last = NoCall
    /\ files2 = <<>>
    /\ sim = NoSim
    /\ detector = LoopDetector_new(SwarmConfig_default)
    /\ mlog = <<>>
    /\ \E warm \in BOOLEAN :
          /\ files = IF warm THEN CapsBefore(LoopCallsBefore).files ELSE <<>>
          /\ log = IF warm
                   THEN [i \in 1..LoopCallsBefore |->
                            Entry(Call("check_all_loops", "agent1",
                                       CapsPrompt(i), OscLabel(i),
                                       CapsBefore(i), NoFaults))]
                   ELSE <<>>
          /\ monitor = IF warm THEN MonitorBefore
                       ELSE EnhancedMonitor_new(200000)
    /\ monitor0 = monitor

(* The calls of the run itself *)
CapsCallsMade ==
    Len(mlog) + (IF Len(log) >= LoopCallsBefore
                 THEN Len(log) - LoopCallsBefore ELSE Len(log))

CapsAll(prompt, state) ==
    /\ CapsCallsMade < MaxCallsCaps
    /\ CheckAllLoops("agent1", prompt, state, NoFaults, 0)
    /\ log' = Append(log, Entry(last'))
    /\ UNCHANGED <<solo, files2, detector2, last2, pc, local, returned>>

(* the samples are taken at increasing times *)
CapsToken(tokens, overflow_checks) ==
    /\ CapsCallsMade < MaxCallsCaps
    /\ RecordTokenUsage("agent1", tokens, ContextBefore + Len(mlog) + 1,
                        overflow_checks)

CapsContext(percentage) ==
    /\ CapsCallsMade < MaxCallsCaps
    /\ RecordContextPercentage(percentage, ContextBefore + Len(mlog) + 1)

CapsTrack(contribution) ==
    /\ CapsCallsMade < MaxCallsCaps
    /\ TrackUsage("agent1", 100, contribution, 1)

NextCaps ==
    \/ \E prompt \in PromptsCaps, state \in StatesCaps : CapsAll(prompt, state)
    \/ \E tokens \in TokensCaps, overflow_checks \in BOOLEAN :
          CapsToken(tokens, overflow_checks)
    \/ \E percentage \in PercentagesCaps : CapsContext(percentage)
    \/ \E contribution \in ContributionsCaps : CapsTrack(contribution)

SpecCaps == InitCaps /\ [][NextCaps]_vars

(* The labels pushed onto an agent's state history by the check_all_loops *)
(* calls of lg: one per call by check_all_loops itself and one more by    *)
(* check_state_oscillation when the call gets as far as that check        *)
RECURSIVE StatePushes(_, _)
StatePushes(lg, agent_id) ==
    IF lg = <<>> THEN <<>>
    ELSE LET rest == StatePushes(SubSeq(lg, 1, Len(lg) - 1), agent_id)
             e == lg[Len(lg)]
         IN IF e.agent_id # agent_id THEN rest
            ELSE IF e.ret = None \/ IsDetection(e.ret, "StateOscillation")
                 THEN rest \o <<e.state, e.state>>
                 ELSE Append(rest, e.state)

(* The entries the calls of ml with this operation added for the agent *)
RECURSIVE Arrived(_, _, _)
Arrived(ml, op, agent_id) ==
    IF ml = <<>> THEN <<>>
    ELSE LET rest == Arrived(SubSeq(ml, 1, Len(ml) - 1), op, agent_id)
             e == ml[Len(ml)]
         IN IF e.op = op /\ e.agent_id = agent_id THEN Append(rest, e)
            ELSE rest

TokenSamples(entries) ==
    [i \in 1..Len(entries) |->
        [tokens |-> entries[i].tokens, timestamp |-> entries[i].ts]]

ContextSamples(entries) ==
    [i \in 1..Len(entries) |->
        [percentage |-> entries[i].percentage, timestamp |-> entries[i].ts]]

TurnsOf(entries, first_turn) ==
    [i \in 1..Len(entries) |->
        [turn_number |-> first_turn + i - 1,
         contribution |-> entries[i].contribution,
         tokens_used |-> entries[i].tokens,
         tasks_completed |-> entries[i].tasks]]

(* C12: every bounded history respects its cap after any sequence of       *)
(* operations and keeps the most recent entries in arrival order, evicting *)
(* the oldest on overflow: at most 50 prompts and 20 state labels per      *)
(* agent in the loop detector, at most 100 token samples per agent and     *)
(* 1000 context-percentage samples in the monitor, and at most 10          *)
(* TurnStats per agent in the resource manager.                            *)
C12_HistoriesCappedNewestKept ==
    LET a == "agent1"
        prompts == HistoryOf(files, get_prompt_history_path(detector, a))
        states == HistoryOf(files, get_state_history_path(detector, a))
        tokens == HistoryOf(monitor.agent_token_history, a)
        context == monitor.context_percentage_history
        turns == HistoryOf(monitor.agent_usage_history, a)
    IN /\ Len(prompts) <= 50
       /\ prompts = LastN(PromptsOf(log, a), 50)
       /\ Len(states) <= 20
       /\ states = LastN(StatePushes(log, a), 20)
       /\ Len(tokens) <= 100
       /\ tokens = LastN(HistoryOf(monitor0.agent_token_history, a)
                             \o TokenSamples(Arrived(mlog,
                                    "record_token_usage", a)), 100)
       /\ Len(context) <= 1000
       /\ context = LastN(monitor0.context_percentage_history
                              \o ContextSamples(Arrived(mlog,
                                     "record_context_percentage", "")), 1000)
       /\ Len(turns) <= 10
       /\ turns = LastN(HistoryOf(monitor0.agent_usage_history, a)
                            \o TurnsOf(Arrived(mlog, "track_usage", a),
                                       monitor0.turn_counter), 10)

(* a history is full for the first time, and another has evicted *)
C12_Witness ==
    /\ Len(PromptsOf(log, "agent1")) = 50
    /\ Len(files[get_prompt_history_path(detector, "agent1")]) = 50
    /\ Len(Arrived(mlog, "track_usage", "agent1")) = 2
    /\ Len(monitor.agent_usage_history["agent1"]) = 10
    /\ monitor.agent_usage_history["agent1"][1].turn_number = 1
    /\ monitor.agent_usage_history["agent1"][10].turn_number = 10

----------------------------------------------------------------------------
(* SpecMonitor: every monitor and resource-manager operation, on a monitor *)
(* that has already tracked some turns                                     *)

MaxCallsMonitor == 2

AgentsMonitor == {"agent1", "agent2"}
TokensMonitor == {50, 100}
ContributionsMonitor == {25, 75}
TotalsMonitor == {0, 100000}

MonitorsMonitor ==
    {EnhancedMonitor_new(200000),
     with_auto_reduce(200000, TRUE, 20, 30)}

(* nothing tracked; agent1 with five low turns; agent1 low and agent2 high *)
TurnsMonitor ==
    {<<>>,
     <<<<"agent1", 25>>, <<"agent1", 25>>, <<"agent1", 25>>,
       <<"agent1", 25>>, <<"agent1", 25>>>>,
     <<<<"agent1", 25>>, <<"agent2", 75>>>>}

(* The agents of these turns have each reported one token sample *)
InitMonitor ==
    /\ InitLoopUnused
    /\ mlog = <<>>
    /\ \E m \in MonitorsMonitor, turns \in TurnsMonitor :
          LET tracked == Tracked(m, turns)
          IN monitor =
                [tracked EXCEPT !.agent_token_history =
                    [a \in DOMAIN tracked.agent_usage_history |->
                        <<[tokens |-> 100, timestamp |-> 0]>>]]
    /\ monitor0 = monitor

CallsLeft == Len(mlog) < MaxCallsMonitor

(* the calls are made at increasing times *)
Now == Len(mlog) + 1

NextMonitor ==
    \/ \E agent_id \in AgentsMonitor, tokens \in TokensMonitor,
          overflow_checks \in BOOLEAN :
          CallsLeft /\ RecordTokenUsage(agent_id, tokens, Now, overflow_checks)
    \/ CallsLeft /\ RecordContextPercentage(90, Now)
    \/ \E agent_id \in AgentsMonitor :
          CallsLeft /\ RecordLoopDetection(agent_id, Now)
    \/ \E agent_id \in AgentsMonitor, success \in BOOLEAN :
          CallsLeft /\ RecordIntervention(agent_id, success, Now)
    \/ \E agent_id \in AgentsMonitor :
          CallsLeft /\ RecordScopeAdjustment(agent_id, Now)
    \/ CallsLeft /\ RecordCompaction(Now)
    \/ \E agent_id \in AgentsMonitor :
          CallsLeft /\ RecordAgentFailure(agent_id, "timeout", Now)
    \/ \E agent_id \in AgentsMonitor, contribution \in ContributionsMonitor :
          CallsLeft /\ TrackUsage(agent_id, 100, contribution, 1)
    \/ \E order \in Orders(DOMAIN monitor.agent_usage_history) :
          CallsLeft /\ CheckImbalance(order)
    \/ \E total \in TotalsMonitor,
          order \in Orders(DOMAIN monitor.agent_usage_history) :
          CallsLeft /\ ReallocateBudget(total, order)
    \/ \E agent_id \in AgentsMonitor :
          CallsLeft /\ CheckPruningCandidate(agent_id)
    \/ \E order \in Orders(DOMAIN monitor.agent_token_history),
          overflow_checks \in BOOLEAN, huge \in BOOLEAN :
          CallsLeft /\ GetAllAlerts(order, overflow_checks, huge)

SpecMonitor == InitMonitor /\ [][NextMonitor]_vars

(* The agents with a history at the start or named in a later call *)
EverIn(history0, op) ==
    DOMAIN history0 \cup
        {mlog[i].agent_id : i \in {j \in 1..Len(mlog) : mlog[j].op = op}}

MinOf(a, b) == IF a <= b THEN a ELSE b

(* A pruning advisory or a "Potential prune" note was issued for the agent *)
AdvisedToPrune(agent_id) ==
    \E i \in 1..Len(mlog) :
        \/ /\ mlog[i].op = "check_pruning_candidate"
           /\ mlog[i].agent_id = agent_id
           /\ mlog[i].ret.flag
        \/ /\ mlog[i].op = "reallocate_budget"
           /\ NotesOf(mlog[i].ret.adjustments, "Potential prune", agent_id) > 0

(* C20: the monitor only advises and never removes an agent: after any     *)
(* sequence of track_usage, record_*, check_imbalance,                     *)
(* check_pruning_candidate, reallocate_budget and alert calls, every agent *)
(* that has ever been tracked still has its entries in agent_usage_history *)
(* and agent_token_history, even after a pruning advisory or a "Potential  *)
(* prune" note was issued for it.                                          *)
C20_AgentsNeverRemoved ==
    /\ \A a \in EverIn(monitor0.agent_usage_history, "track_usage") :
          /\ a \in DOMAIN monitor.agent_usage_history
          /\ Len(monitor.agent_usage_history[a]) =
                MinOf(UsageHistoryCap,
                      Len(HistoryOf(monitor0.agent_usage_history, a))
                          + Len(Arrived(mlog, "track_usage", a)))
    /\ \A a \in EverIn(monitor0.agent_token_history, "record_token_usage") :
          /\ a \in DOMAIN monitor.agent_token_history
          /\ Len(monitor.agent_token_history[a]) =
                MinOf(TokenHistoryCap,
                      Len(HistoryOf(monitor0.agent_token_history, a))
                          + Len(Arrived(mlog, "record_token_usage", a)))

(* agent1 got both a pruning advisory and a "Potential prune" note and is  *)
(* still in both histories                                                 *)
C20_Witness ==
    /\ Len(mlog) = 2
    /\ mlog[1].op = "reallocate_budget"
    /\ NotesOf(mlog[1].ret.adjustments, "Potential prune", "agent1") = 1
    /\ mlog[2].op = "check_pruning_candidate"
    /\ mlog[2].agent_id = "agent1"
    /\ mlog[2].ret.flag
    /\ AdvisedToPrune("agent1")
    /\ Len(monitor.agent_usage_history["agent1"]) = 5
    /\ Len(monitor.agent_token_history["agent1"]) = 1

----------------------------------------------------------------------------
(* SpecImbalance: track_usage and check_imbalance on up to three agents *)

MaxCallsImbalance == 3

AgentsImbalance == {"agent1", "agent2", "agent3"}

(* 0.40 and 0.60 have a coefficient of variation of exactly 0.2 *)
ContributionsImbalance == {0, 10, 40, 60, 62, 95}

(* nothing tracked yet, or two agents at 0.58 and 0.60 *)
TurnsImbalance == {<<>>, <<<<"agent1", 58>>, <<"agent2", 60>>>>}

InitImbalance ==
    /\ InitLoopUnused
    /\ mlog = <<>>
    /\ \E turns \in TurnsImbalance :
          monitor = Tracked(EnhancedMonitor_new(200000), turns)
    /\ monitor0 = monitor

ImbalanceTrack(agent_id, contribution) ==
    /\ Len(mlog) < MaxCallsImbalance
    /\ TrackUsage(agent_id, 100, contribution, 1)

ImbalanceCheck(order) ==
    /\ Len(mlog) < MaxCallsImbalance
    /\ CheckImbalance(order)

NextImbalance ==
    \/ \E agent_id \in AgentsImbalance,
          contribution \in ContributionsImbalance :
          ImbalanceTrack(agent_id, contribution)
    \/ \E order \in Orders(DOMAIN monitor.agent_usage_history) :
          ImbalanceCheck(order)

SpecImbalance == InitImbalance /\ [][NextImbalance]_vars

(* The latest contribution score of a tracked agent, in hundredths *)
Latest(id) ==
    LET turns == monitor.agent_usage_history[id]
    IN turns[Len(turns)].contribution

RECURSIVE SumOver(_, _)
SumOver(S, f) ==
    IF S = {} THEN 0
    ELSE LET x == CHOOSE y \in S : TRUE
         IN f[x] + SumOver(S \ {x}, f)

(* population standard deviation / mean > 0.20 for the latest scores:      *)
(* with n scores c of sum s the mean is s / n and the variance is the sum  *)
(* of (n * c - s)^2 divided by n^3                                         *)
VariationAboveFifth ==
    LET n == Cardinality(TrackedAgents)
        s == SumOver(TrackedAgents, [id \in TrackedAgents |-> Latest(id)])
        d == SumOver(TrackedAgents,
                     [id \in TrackedAgents |->
                         (n * Latest(id) - s) * (n * Latest(id) - s)])
    IN 25 * d > n * s * s

MeanPositive ==
    SumOver(TrackedAgents, [id \in TrackedAgents |-> Latest(id)]) > 0

LatestAre(scores) ==
    /\ Cardinality(TrackedAgents) = Len(scores)
    /\ \E order \in Orders(TrackedAgents) :
          \A i \in 1..Len(scores) : Latest(order[i]) = scores[i]

(* C21: check_imbalance returns true if and only if at least two agents    *)
(* are tracked, the mean of their latest contribution scores is positive,  *)
(* and the coefficient of variation (population standard deviation / mean) *)
(* of those latest scores is strictly above 0.20; latest contributions     *)
(* 0.95 and 0.10 give true, and 0.58, 0.60, 0.62 give false.               *)
C21_ImbalanceIffVariationAboveFifth ==
    mlast.op = "check_imbalance" =>
        /\ mlast.ret.flag <=>
              /\ Cardinality(TrackedAgents) >= 2
              /\ MeanPositive
              /\ VariationAboveFifth
        /\ LatestAre(<<95, 10>>) => mlast.ret.flag
        /\ LatestAre(<<58, 60, 62>>) => ~mlast.ret.flag

(* the check answered false for 0.40 and 0.60, whose coefficient is 0.2 *)
C21_Witness ==
    /\ mlast.op = "check_imbalance"
    /\ LatestAre(<<40, 60>>)
    /\ ~mlast.ret.flag

(* the two examples of the claim *)
C21_WitnessTrue ==
    /\ mlast.op = "check_imbalance"
    /\ LatestAre(<<95, 10>>)
    /\ mlast.ret.flag

C21_WitnessFalse ==
    /\ mlast.op = "check_imbalance"
    /\ LatestAre(<<58, 60, 62>>)
    /\ ~mlast.ret.flag

----------------------------------------------------------------------------
(* SpecPruning: track_usage, reallocate_budget and check_pruning_candidate *)
(* for an agent with four or five turns on record                          *)

MaxCallsPruning == 3

AgentsPruning == {"agent1", "agent2"}
ContributionsPruning == {25, 50}

(* with four turns of 100 tokens on record, a fifth of 199600 tokens makes *)
(* the average 40000, which is 0.2 of the default total of 200000          *)
TokensPruning == {100, 199600}

(* five turns of 100 tokens are 0.2 of a total of 500 on average *)
TotalsPruning == {0, 500, 200000}

MonitorsPruning ==
    {EnhancedMonitor_new(200000),
     with_auto_reduce(200000, FALSE, 20, 50)}

(* no turn; four low turns; four high turns; a high turn before four low   *)
(* ones                                                                    *)
TurnsPruning ==
    {<<>>,
     <<<<"agent1", 25>>, <<"agent1", 25>>, <<"agent1", 25>>,
       <<"agent1", 25>>>>,
     <<<<"agent1", 75>>, <<"agent1", 75>>, <<"agent1", 75>>,
       <<"agent1", 75>>>>,
     <<<<"agent1", 75>>, <<"agent1", 25>>, <<"agent1", 25>>,
       <<"agent1", 25>>, <<"agent1", 25>>>>}

InitPruning ==
    /\ InitLoopUnused
    /\ mlog = <<>>
    /\ \E m \in MonitorsPruning, turns \in TurnsPruning :
          monitor = Tracked(m, turns)
    /\ monitor0 = monitor

PruningTrack(agent_id, tokens_used, contribution) ==
    /\ Len(mlog) < MaxCallsPruning
    /\ TrackUsage(agent_id, tokens_used, contribution, 1)

PruningReallocate(total, order) ==
    /\ Len(mlog) < MaxCallsPruning
    /\ ReallocateBudget(total, order)

PruningCheck(agent_id) ==
    /\ Len(mlog) < MaxCallsPruning
    /\ CheckPruningCandidate(agent_id)

NextPruning ==
    \/ \E agent_id \in AgentsPruning, tokens_used \in TokensPruning,
          contribution \in ContributionsPruning :
          PruningTrack(agent_id, tokens_used, contribution)
    \/ \E total \in TotalsPruning,
          order \in Orders(DOMAIN monitor.agent_usage_history) :
          PruningReallocate(total, order)
    \/ \E agent_id \in AgentsPruning : PruningCheck(agent_id)

SpecPruning == InitPruning /\ [][NextPruning]_vars

(* The recorded turns of an agent, none if it is not tracked *)
TurnsRecorded(agent_id) ==
    IF agent_id \in DOMAIN monitor.agent_usage_history
    THEN monitor.agent_usage_history[agent_id]
    ELSE <<>>

(* Over the 5 most recent turns: the average contribution is below 0.3,    *)
(* that is the five scores in hundredths sum to less than 150              *)
LowContribution(agent_id) ==
    LET turns == TurnsRecorded(agent_id)
    IN /\ Len(turns) >= 5
       /\ SumOf(Contributions(LastN(turns, 5))) < 150

(* Over the 5 most recent turns: average tokens / total budget < 0.2, that *)
(* is the five token counts sum to less than the total                     *)
LowUsage(agent_id) ==
    LET turns == TurnsRecorded(agent_id)
    IN /\ Len(turns) >= 5
       /\ monitor.budget.total_budget > 0
       /\ SumOf(TokensUsed(LastN(turns, 5))) < monitor.budget.total_budget

PruningChecked == mlast.op = "check_pruning_candidate"

(* C22: check_pruning_candidate(agent) returns an advisory if and only if  *)
(* the agent has at least 5 recorded turns and, over its 5 most recent     *)
(* turns, both the average contribution is below 0.3 and the average       *)
(* tokens used divided by the current total budget is below 0.2; low       *)
(* contribution alone or low usage alone never yields an advisory, and the *)
(* call leaves all monitor state unchanged.                                *)
C22_AdvisoryIffLowContributionAndLowUsage ==
    /\ [](PruningChecked =>
             (mlast.ret.flag <=>
                 /\ Len(TurnsRecorded(mlast.agent_id)) >= 5
                 /\ LowContribution(mlast.agent_id)
                 /\ LowUsage(mlast.agent_id)))
    /\ [][(mlog' # mlog /\ mlog'[Len(mlog')].op = "check_pruning_candidate")
             => monitor' = monitor]_vars

(* low contribution with a usage of exactly 0.2 of the budget: no advisory *)
C22_Witness ==
    /\ PruningChecked
    /\ LowContribution(mlast.agent_id)
    /\ ~LowUsage(mlast.agent_id)
    /\ SumOf(TokensUsed(LastN(TurnsRecorded(mlast.agent_id), 5)))
           = monitor.budget.total_budget
    /\ ~mlast.ret.flag

(* an advisory, for five low turns that follow a high one *)
C22_WitnessAdvisory ==
    /\ PruningChecked
    /\ mlast.ret.flag
    /\ Len(TurnsRecorded(mlast.agent_id)) = 6
    /\ TurnsRecorded(mlast.agent_id)[1].contribution = 75

(* low usage with an average contribution of exactly 0.3: no advisory *)
C22_WitnessLowUsageAlone ==
    /\ PruningChecked
    /\ LowUsage(mlast.agent_id)
    /\ SumOf(Contributions(LastN(TurnsRecorded(mlast.agent_id), 5))) = 150
    /\ ~mlast.ret.flag

----------------------------------------------------------------------------
(* SpecOverflow: record_context_percentage and predict_context_overflow *)

MaxCallsOverflow == 3

PercentagesOverflow == {10, 50, 80}
TimesOverflow == {0, 5, 10}

(* The samples on record at the start: none; 10, 20, 30, 40 percent at     *)
(* times 1..4; 50, 40, 30, 20 percent at times 9, 8, 7, 6; ten samples     *)
(* from 60 percent down to 15 and then 20 at times 1..10                   *)
SamplesOverflow ==
    {<<>>,
     [i \in 1..4 |-> [percentage |-> 10 * i, timestamp |-> i]],
     [i \in 1..4 |-> [percentage |-> 60 - 10 * i, timestamp |-> 10 - i]],
     [i \in 1..10 |-> [percentage |-> IF i = 10 THEN 20 ELSE 65 - 5 * i,
                       timestamp |-> i]]}

RECURSIVE Recorded(_, _)
Recorded(m, samples) ==
    IF samples = <<>> THEN m
    ELSE LET e == samples[Len(samples)]
         IN record_context_percentage(
                Recorded(m, SubSeq(samples, 1, Len(samples) - 1)),
                e.percentage, e.timestamp)

InitOverflow ==
    /\ InitLoopUnused
    /\ mlog = <<>>
    /\ \E samples \in SamplesOverflow :
          monitor = Recorded(EnhancedMonitor_new(200000), samples)
    /\ monitor0 = monitor

OverflowRecord(percentage, ts) ==
    /\ Len(mlog) < MaxCallsOverflow
    /\ RecordContextPercentage(percentage, ts)

OverflowPredict ==
    /\ Len(mlog) < MaxCallsOverflow
    /\ PredictContextOverflow

NextOverflow ==
    \/ \E percentage \in PercentagesOverflow, ts \in TimesOverflow :
          OverflowRecord(percentage, ts)
    \/ OverflowPredict

SpecOverflow == InitOverflow /\ [][NextOverflow]_vars

(* The last (up to 10) context samples, in arrival order *)
Window == LastN(monitor.context_percentage_history, 10)

Increasing(samples) ==
    \A i \in 1..(Len(samples) - 1) :
        samples[i].timestamp < samples[i + 1].timestamp

Predicted == mlast.op = "predict_context_overflow"

(* C23: predict_context_overflow returns a prediction if and only if at    *)
(* least 5 context-percentage samples are recorded, the percentage rises   *)
(* over the last (up to 10) samples, and the latest percentage is below    *)
(* the context threshold; for samples recorded with strictly increasing    *)
(* timestamps the prediction has time_to_threshold_seconds = (threshold -  *)
(* latest percentage) / rate, with rate the percentage change per second   *)
(* over that window, and predicted_overflow_time = latest timestamp +      *)
(* time_to_threshold_seconds.                                              *)
C23_PredictsWhenRisingBelowThreshold ==
    Predicted =>
        LET history == monitor.context_percentage_history
            oldest == Window[1]
            latest == Window[Len(Window)]
            change == latest.percentage - oldest.percentage
            span == latest.timestamp - oldest.timestamp
            left == monitor.context_threshold - latest.percentage
            p == mlast.ret.prediction
        IN /\ mlast.ret.flag <=>
                 /\ Len(history) >= 5
                 /\ change > 0
                 /\ left > 0
           /\ (mlast.ret.flag /\ Increasing(history)) =>
                 /\ p.time_to_threshold_seconds.num * change
                       = left * span * p.time_to_threshold_seconds.den
                 /\ p.predicted_overflow_time.num * change
                       = (latest.timestamp * change + left * span)
                            * p.predicted_overflow_time.den

(* What the code does: it predicts exactly when, over the window, the      *)
(* first recorded sample has the later timestamp and the higher            *)
(* percentage, below the threshold, and extrapolates from that sample      *)
C23_PredictsOnReversedWindow ==
    Predicted =>
        LET history == monitor.context_percentage_history
            oldest == Window[1]
            latest == Window[Len(Window)]
        IN /\ mlast.ret.flag <=>
                 /\ Len(history) >= 5
                 /\ oldest.timestamp > latest.timestamp
                 /\ oldest.percentage > latest.percentage
                 /\ oldest.percentage < monitor.context_threshold
           /\ (Len(history) >= 5 /\ Increasing(history)) => ~mlast.ret.flag

(* rising samples at increasing times, below the threshold: no prediction *)
C23_RisingUnpredicted ==
    /\ Predicted
    /\ Len(monitor.context_percentage_history) = 5
    /\ Increasing(monitor.context_percentage_history)
    /\ Window[5].percentage = 50
    /\ ~mlast.ret.flag

----------------------------------------------------------------------------
(* SpecShould: should_compress of both implementations of the trait *)

MaxCallsShould == 2

PctsShould == {50, 80, 81}
StepsShould == {17, 18}
TokensShould == {24999, 25000}

InitShould ==
    /\ InitLoopUnused
    /\ InitMonitorIdle

ShouldMonitor(context_pct, steps, tokens) ==
    /\ Len(mlog) < MaxCallsShould
    /\ MonitorShouldCompress(context_pct, steps, tokens)

ShouldCompressor(context_pct, steps, tokens) ==
    /\ Len(mlog) < MaxCallsShould
    /\ CompressorShouldCompress(context_pct, steps, tokens)

NextShould ==
    \/ \E context_pct \in PctsShould, steps \in StepsShould,
          tokens \in TokensShould : ShouldMonitor(context_pct, steps, tokens)
    \/ \E context_pct \in PctsShould, steps \in StepsShould,
          tokens \in TokensShould :
          ShouldCompressor(context_pct, steps, tokens)

SpecShould == InitShould /\ [][NextShould]_vars

ShouldCalls(target) ==
    {i \in 1..Len(mlog) :
        mlog[i].op = "should_compress" /\ mlog[i].target = target}

(* C24: EnhancedMonitor.should_compress(context_pct, steps, tokens) is     *)
(* true if and only if context_pct > 0.80 and (steps >= 18 or tokens >=    *)
(* 25000): should_compress(0.80, 18, 25000) is false and                   *)
(* should_compress(0.81, 18, 25000) is true.                               *)
C24_MonitorShouldCompress ==
    \A i \in ShouldCalls("monitor") :
        LET c == mlog[i]
        IN /\ c.ret.flag <=>
                 (c.context_pct > 80 /\ (c.steps >= 18 \/ c.tokens >= 25000))
           /\ (c.context_pct = 80 /\ c.steps = 18 /\ c.tokens = 25000)
                 => ~c.ret.flag
           /\ (c.context_pct = 81 /\ c.steps = 18 /\ c.tokens = 25000)
                 => c.ret.flag

(* should_compress(0.80, 18, 25000) and then (0.81, 18, 25000) *)
C24_Witness ==
    /\ Len(mlog) = 2
    /\ ShouldCalls("monitor") = {1, 2}
    /\ mlog[1].context_pct = 80 /\ mlog[1].steps = 18
    /\ mlog[1].tokens = 25000 /\ ~mlog[1].ret.flag
    /\ mlog[2].context_pct = 81 /\ mlog[2].steps = 18
    /\ mlog[2].tokens = 25000 /\ mlog[2].ret.flag

(* C25: TrajectoryCompressor.should_compress is gated on context pressure  *)
(* like the EnhancedMonitor implementation of the same trait: it returns   *)
(* false whenever context_pct <= 0.80, whatever the step count and token   *)
(* count, and the two implementations return the same answer for every     *)
(* input.                                                                  *)
C25_CompressorGatedLikeMonitor ==
    /\ \A i \in ShouldCalls("compressor") :
          mlog[i].context_pct <= 80 => ~mlog[i].ret.flag
    /\ \A i \in ShouldCalls("compressor"), j \in ShouldCalls("monitor") :
          (/\ mlog[i].context_pct = mlog[j].context_pct
           /\ mlog[i].steps = mlog[j].steps
           /\ mlog[i].tokens = mlog[j].tokens)
             => mlog[i].ret.flag = mlog[j].ret.flag

(* What the code does: the compressor's check is a plain disjunction *)
C25_CompressorFiresOnAnyBound ==
    \A i \in ShouldCalls("compressor") :
        mlog[i].ret.flag <=>
            \/ mlog[i].context_pct > 80
            \/ mlog[i].steps >= 18
            \/ mlog[i].tokens >= 25000

----------------------------------------------------------------------------
(* SpecCompress: compress_trajectory of both implementations on one log,   *)
(* called once or twice, after at most one update_config                   *)

MaxEntries == 3

(* action, outcome, is_repeat, impact_score, succeeded, tokens_used *)
KindsCompress ==
    {<<"run", <<"ok">>, FALSE, 90, TRUE, 300>>,
     <<"run", <<"ok">>, FALSE, 70, FALSE, 200>>,
     <<"plan", <<"ok">>, FALSE, 20, TRUE, 100>>,
     <<"retry", <<"Failed">>, TRUE, 20, FALSE, 100>>,
     <<"retry", <<"Failed">>, FALSE, 10, FALSE, 101>>,
     <<"query", <<"Failed">>, FALSE, 69, FALSE, 50>>,
     <<"query", <<"Updated">>, FALSE, 30, FALSE, 60>>}

EntriesCompress ==
    UNION {{[i \in 1..n |->
                TrajectoryEntry(i, k[i][1], k[i][2], k[i][3], k[i][4],
                                k[i][5], k[i][6])] :
            k \in [1..n -> KindsCompress]} : n \in 0..MaxEntries}

(* Eleven actions tried twice each and the first a third time, all failed *)
(* with a low impact, each action with an outcome of its own              *)
ManyActions ==
    <<"a01", "a02", "a03", "a04", "a05", "a06", "a07", "a08", "a09", "a10",
      "a11">>

ManyEntries ==
    [i \in 1..(2 * Len(ManyActions) + 1) |->
        LET action == IF i > 2 * Len(ManyActions) THEN ManyActions[1]
                      ELSE ManyActions[(i + 1) \div 2]
        IN TrajectoryEntry(i, action, <<"Failed", action>>, FALSE, 10,
                           FALSE, 40)]

(* tokens_used is the sum of the entries' tokens, or 0 *)
LogsCompress ==
    UNION {{[entries |-> e, tokens_used |-> EntryTokens(e)],
            [entries |-> e, tokens_used |-> 0]} :
           e \in EntriesCompress \cup {ManyEntries}}

Rotations(seq) ==
    {[i \in 1..Len(seq) |-> seq[((i + k - 2) % Len(seq)) + 1]] :
        k \in 1..Len(seq)}

(* The iteration orders of a HashMap with these keys; of the orders of the *)
(* eleven keys only the rotations of one are tried                         *)
IterationOrders(keys) ==
    IF keys = {ManyActions[i] : i \in 1..Len(ManyActions)}
    THEN Rotations(ManyActions)
    ELSE Orders(keys)

ConfigsCompress ==
    {[TrajectoryCompressorConfig_default EXCEPT !.preserve_threshold = 50]}

InitCompress ==
    /\ InitLoopUnused
    /\ InitMonitorIdle

CompressCalls ==
    {i \in 1..Len(mlog) : mlog[i].op = "compress_trajectory"}

(* The log of the first compression is any log, a second compression is   *)
(* of the same log by the same implementation, and there is no third       *)
LogsNow ==
    IF CompressCalls = {} THEN LogsCompress
    ELSE IF Cardinality(CompressCalls) = 1 /\ mlast.op = "compress_trajectory"
         THEN {mlast.trajectory}
         ELSE {}

MayCompress(target) == CompressCalls = {} \/ mlast.target = target

CompressMonitor(trajectory, order) ==
    /\ MayCompress("monitor")
    /\ MonitorCompressTrajectory(trajectory, order)

CompressCompressor(trajectory, order) ==
    /\ MayCompress("compressor")
    /\ CompressorCompressTrajectory(trajectory, order)

CompressUpdateConfig(config) ==
    /\ mlog = <<>>
    /\ UpdateConfig(config)

NextCompress ==
    \/ \E trajectory \in LogsNow :
          \E order \in IterationOrders(
                            ActionsOf(monitor_low_impact(trajectory))) :
             CompressMonitor(trajectory, order)
    \/ \E trajectory \in LogsNow :
          \E order \in IterationOrders(
                 ActionsOf(compressor_low_impact(compressor, trajectory))) :
             CompressCompressor(trajectory, order)
    \/ \E config \in ConfigsCompress : CompressUpdateConfig(config)

SpecCompress == InitCompress /\ [][NextCompress]_vars

CompressCallsOf(target) == {i \in CompressCalls : mlog[i].target = target}

Succeeded(e) == e.succeeded

HighOrSucceeded(e) == e.impact_score >= 70 \/ e.succeeded

LowAndFailed(e) == ~HighOrSucceeded(e)

(* The summary groups of a result that stand for this action *)
GroupsFor(compressed, action) ==
    {k \in 1..Len(compressed.summarized) :
        compressed.summarized[k].pattern.action = action}

CountsOf(compressed) ==
    SumOf([k \in 1..Len(compressed.summarized) |->
              compressed.summarized[k].count])

(* C26: EnhancedMonitor.compress_trajectory classifies every input entry   *)
(* exactly once and never duplicates one: an entry is in preserved (in     *)
(* input order) if and only if its impact_score >= 0.7 or it succeeded,    *)
(* every other entry is counted in exactly one summary group (the group of *)
(* its action name), so that |preserved| + sum of group counts = number of *)
(* input entries; an empty log gives empty preserved and empty summarized. *)
C26_EveryEntryClassifiedOnce ==
    \A i \in CompressCallsOf("monitor") :
        LET entries == mlog[i].trajectory.entries
            c == mlog[i].ret.compressed
            others == SelectSeq(entries, LowAndFailed)
        IN /\ c.preserved = SelectSeq(entries, HighOrSucceeded)
           /\ \A a \in ActionsOf(others) :
                 /\ Cardinality(GroupsFor(c, a)) = 1
                 /\ \A k \in GroupsFor(c, a) :
                       c.summarized[k].count =
                           Cardinality({j \in 1..Len(others) :
                                           others[j].action = a})
           /\ \A k \in 1..Len(c.summarized) :
                 c.summarized[k].pattern.action \in ActionsOf(others)
           /\ Len(c.preserved) + CountsOf(c) = Len(entries)
           /\ entries = <<>> => (c.preserved = <<>> /\ c.summarized = <<>>)

(* one entry preserved, two summarized as groups of one *)
C26_Witness ==
    \E i \in CompressCallsOf("monitor") :
        LET c == mlog[i].ret.compressed
        IN /\ Len(mlog[i].trajectory.entries) = 3
           /\ Len(c.preserved) = 1
           /\ c.preserved[1].timestamp = 2
           /\ Len(c.summarized) = 2
           /\ CountsOf(c) = 2

(* an empty log *)
C26_WitnessEmpty ==
    \E i \in CompressCallsOf("monitor") :
        /\ mlog[i].trajectory.entries = <<>>
        /\ mlog[i].ret.compressed.preserved = <<>>
        /\ mlog[i].ret.compressed.summarized = <<>>

(* C27: every entry that EnhancedMonitor.compress_trajectory places in     *)
(* preserved has impact_score >= 0.7.                                      *)
C27_PreservedAreHighImpact ==
    \A i \in CompressCallsOf("monitor") :
        \A k \in 1..Len(mlog[i].ret.compressed.preserved) :
            mlog[i].ret.compressed.preserved[k].impact_score >= 70

(* What the code does: a preserved entry has a high impact or succeeded *)
C27_PreservedAreHighImpactOrSucceeded ==
    \A i \in CompressCallsOf("monitor") :
        \A k \in 1..Len(mlog[i].ret.compressed.preserved) :
            HighOrSucceeded(mlog[i].ret.compressed.preserved[k])

(* C28: every SummaryGroup returned by compress_trajectory represents at   *)
(* least 2 entries sharing an action name (count >= 2); a candidate entry  *)
(* whose action occurs only once in the candidate pool never produces a    *)
(* summary group.                                                          *)
C28_GroupsHaveAtLeastTwoEntries ==
    \A i \in CompressCalls :
        \A k \in 1..Len(mlog[i].ret.compressed.summarized) :
            mlog[i].ret.compressed.summarized[k].count >= 2

(* What the code does: only the TrajectoryCompressor drops groups of one *)
C28_CompressorGroupsHaveAtLeastTwoEntries ==
    \A i \in CompressCallsOf("compressor") :
        \A k \in 1..Len(mlog[i].ret.compressed.summarized) :
            mlog[i].ret.compressed.summarized[k].count >= 2

(* tokens_saved of a group of count entries with these tokens in total *)
GroupSaved(tokens, count) == ((tokens \div count) * (count - 1)) \div 2

(* C29: EnhancedMonitor.compress_trajectory returns compression_ratio =    *)
(* (sum of preserved entries' tokens + floor(sum of the groups'            *)
(* tokens_saved / 3)) / log.tokens_used, with each group's tokens_saved =  *)
(* floor(floor(group tokens / count) * (count - 1) / 2), and 0 when        *)
(* log.tokens_used is 0; whenever log.tokens_used equals the sum of its    *)
(* entries' tokens_used the ratio lies between 0 and 1 inclusive.          *)
C29_CompressionRatio ==
    \A i \in CompressCallsOf("monitor") :
        LET log1 == mlog[i].trajectory
            c == mlog[i].ret.compressed
            ratio == c.compression_ratio
            others == SelectSeq(log1.entries, LowAndFailed)
            tokensOf(a) ==
                SumOf([j \in 1..Len(others) |->
                          IF others[j].action = a
                          THEN others[j].tokens_used ELSE 0])
        IN /\ \A k \in 1..Len(c.summarized) :
                 c.summarized[k].tokens_saved =
                     GroupSaved(tokensOf(c.summarized[k].pattern.action),
                                c.summarized[k].count)
           /\ log1.tokens_used = 0 => ratio.num = 0
           /\ log1.tokens_used > 0 =>
                 ratio.num * log1.tokens_used =
                     (EntryTokens(c.preserved) + SavedTokens(c.summarized) \div 3)
                         * ratio.den
           /\ log1.tokens_used = EntryTokens(log1.entries) =>
                 /\ 0 <= ratio.num
                 /\ ratio.den > 0
                 /\ ratio.num <= ratio.den

(* a preserved entry of 300 tokens and a group of 100 + 101 tokens: the    *)
(* group saves floor(floor(201 / 2) * 1 / 2) = 50 tokens, the ratio is     *)
(* (300 + floor(50 / 3)) / 501                                             *)
C29_Witness ==
    \E i \in CompressCallsOf("monitor") :
        LET c == mlog[i].ret.compressed
        IN /\ mlog[i].trajectory.tokens_used = 501
           /\ Len(c.summarized) = 1
           /\ c.summarized[1].count = 2
           /\ c.summarized[1].tokens_saved = 50
           /\ c.compression_ratio = [num |-> 316, den |-> 501]

(* The summary groups of a result *)
SummarySet(compressed) ==
    {compressed.summarized[k] : k \in 1..Len(compressed.summarized)}

(* The summary groups of a result by pattern, count and tokens_saved *)
SummaryOutlines(compressed) ==
    {[pattern |-> compressed.summarized[k].pattern,
      count |-> compressed.summarized[k].count,
      tokens_saved |-> compressed.summarized[k].tokens_saved] :
        k \in 1..Len(compressed.summarized)}

(* C30: compress_trajectory is deterministic for both implementations      *)
(* (EnhancedMonitor and TrajectoryCompressor): two runs on the same log    *)
(* with the same configuration yield the same preserved list, the same set *)
(* of summary groups (same actions/patterns, counts and tokens_saved) and  *)
(* the same compression_ratio, independently of hash-map iteration order.  *)
C30_CompressionDeterministic ==
    \A i, j \in CompressCalls :
        (mlog[i].target = mlog[j].target
            /\ mlog[i].trajectory = mlog[j].trajectory) =>
            LET c1 == mlog[i].ret.compressed
                c2 == mlog[j].ret.compressed
            IN /\ c1.preserved = c2.preserved
               /\ SummarySet(c1) = SummarySet(c2)
               /\ c1.compression_ratio = c2.compression_ratio

(* What the code does: the EnhancedMonitor returns the same groups in any  *)
(* order; the TrajectoryCompressor returns the same preserved list and     *)
(* ratio, and groups with the same patterns, counts and tokens_saved, but  *)
(* not for the same actions when more than ten actions are repeated        *)
C30_DeterministicUpToTruncation ==
    \A i, j \in CompressCalls :
        (mlog[i].target = mlog[j].target
            /\ mlog[i].trajectory = mlog[j].trajectory) =>
            LET c1 == mlog[i].ret.compressed
                c2 == mlog[j].ret.compressed
            IN /\ c1.preserved = c2.preserved
               /\ SummaryOutlines(c1) = SummaryOutlines(c2)
               /\ c1.compression_ratio = c2.compression_ratio
               /\ (mlog[i].target = "monitor"
                     \/ Cardinality(ActionsOf(mlog[i].trajectory.entries))
                            <= MaxSummaries)
                     => SummarySet(c1) = SummarySet(c2)

----------------------------------------------------------------------------
(* SpecFilter: filter_expired_info of both implementations on one list of  *)
(* entries, and once more on the same list or on its own result            *)

MaxEntriesFilter == 3

(* action, outcome, impact_score, succeeded, tokens_used *)
KindsFilter ==
    {<<"run", <<"ok">>, 50, TRUE, 100>>,
     <<"run", <<"ok">>, 50, TRUE, 120>>,
     <<"run", <<"done">>, 80, TRUE, 100>>,
     <<"run", <<"Updated", "config">>, 90, TRUE, 100>>,
     <<"run", <<"no", "change">>, 40, TRUE, 100>>,
     <<"run", <<"ok">>, 35, TRUE, 100>>,
     <<"plan", <<"revised", "plan">>, 60, FALSE, 50>>,
     <<"plan", <<"still", "working">>, 60, FALSE, 50>>,
     <<"plan", <<"failed">>, 20, FALSE, 50>>}

(* The entries carry their position as timestamp, or all the same one *)
EntriesFilter ==
    UNION {UNION {{[i \in 1..n |->
                      TrajectoryEntry(i, k[i][1], k[i][2], FALSE, k[i][3],
                                      k[i][4], k[i][5])],
                   [i \in 1..n |->
                      TrajectoryEntry(1, k[i][1], k[i][2], FALSE, k[i][3],
                                      k[i][4], k[i][5])]} :
                  k \in [1..n -> KindsFilter]} : n \in 0..MaxEntriesFilter}

InitFilter ==
    /\ InitLoopUnused
    /\ InitMonitorIdle

FilterCalls == {i \in 1..Len(mlog) : mlog[i].op = "filter_expired_info"}

(* The first call filters any list, a second call the same list or the    *)
(* result of the first, and there is no third                              *)
EntriesNow ==
    IF FilterCalls = {} THEN EntriesFilter
    ELSE IF Cardinality(FilterCalls) = 1
         THEN {mlast.entries, mlast.ret.filtered}
         ELSE {}

MayFilter(target) == FilterCalls = {} \/ mlast.target = target

FilterMonitor(entries) ==
    /\ MayFilter("monitor")
    /\ MonitorFilterExpiredInfo(entries)

FilterCompressor(entries, order) ==
    /\ MayFilter("compressor")
    /\ CompressorFilterExpiredInfo(entries, order)

NextFilter ==
    \/ \E entries \in EntriesNow : FilterMonitor(entries)
    \/ \E entries \in EntriesNow :
          \E order \in Orders(compressor_latest_actions(compressor, entries)) :
             FilterCompressor(entries, order)

SpecFilter == InitFilter /\ [][NextFilter]_vars

FilterCallsOf(target) == {i \in FilterCalls : mlog[i].target = target}

(* The markers of supersession that the claim names *)
SupersessionMarkers ==
    {"updated", "replaced", "superseded", "revised", "corrected"}

HasMarker(entry) ==
    \E k \in 1..Len(entry.outcome) :
        to_lowercase(entry.outcome[k]) \in SupersessionMarkers

(* C31: filter_expired_info never returns an entry whose outcome text      *)
(* contains a supersession marker (case-insensitive: updated, replaced,    *)
(* superseded, revised, corrected), whatever the entry's impact_score,     *)
(* success flag or position in the log; this holds for both                *)
(* implementations, EnhancedMonitor and TrajectoryCompressor.              *)
C31_NoSupersededEntryReturned ==
    \A i \in FilterCalls :
        \A k \in 1..Len(mlog[i].ret.filtered) :
            ~HasMarker(mlog[i].ret.filtered[k])

(* What the code does: EnhancedMonitor never returns an entry with a      *)
(* marker, and TrajectoryCompressor returns only entries that succeeded    *)
C31_MonitorDropsSuperseded ==
    /\ \A i \in FilterCallsOf("monitor") :
          \A k \in 1..Len(mlog[i].ret.filtered) :
              ~HasMarker(mlog[i].ret.filtered[k])
    /\ \A i \in FilterCallsOf("compressor") :
          \A k \in 1..Len(mlog[i].ret.filtered) :
              mlog[i].ret.filtered[k].succeeded

(* TrajectoryCompressor returns the only entry of a list, a succeeded one  *)
(* whose outcome says Updated                                              *)
C31_CompressorReturnsSuperseded ==
    \E i \in FilterCallsOf("compressor") :
        /\ Len(mlog[i].entries) = 1
        /\ Len(mlog[i].ret.filtered) = 1
        /\ HasMarker(mlog[i].ret.filtered[1])
(* A succeeded entry with neither a supersession marker nor a redundancy  *)
(* pattern in its outcome                                                  *)
PlainSucceeded(entry) ==
    /\ entry.succeeded
    /\ ~monitor_is_superseded(entry)
    /\ ~monitor_is_redundant(entry)

PlainOf(entries, action) ==
    {i \in 1..Len(entries) :
        PlainSucceeded(entries[i]) /\ entries[i].action = action}

(* higher impact_score, ties broken by higher tokens_used *)
Outranks(a, b) ==
    \/ a.impact_score > b.impact_score
    \/ a.impact_score = b.impact_score /\ a.tokens_used > b.tokens_used

SucceededOf(entries, action) ==
    {k \in 1..Len(entries) :
        entries[k].succeeded /\ entries[k].action = action}

NonIncreasing(entries) ==
    \A k \in 1..(Len(entries) - 1) :
        entries[k].impact_score >= entries[k + 1].impact_score

(* C32: for every action name with at least one succeeded entry matching   *)
(* neither a supersession marker nor a redundancy pattern,                 *)
(* EnhancedMonitor.filter_expired_info returns exactly one succeeded entry *)
(* with that action, the one with the highest impact_score among them      *)
(* (ties broken by higher tokens_used); every other succeeded entry of the *)
(* action is absent, and the result is sorted by non-increasing impact.    *)
C32_KeepsBestSucceededPerAction ==
    \A i \in FilterCallsOf("monitor") :
        LET entries == mlog[i].entries
            result == mlog[i].ret.filtered
        IN /\ NonIncreasing(result)
           /\ \A a \in ActionsOf(entries) :
                 PlainOf(entries, a) # {} =>
                    /\ Cardinality(SucceededOf(result, a)) = 1
                    /\ \A k \in SucceededOf(result, a) :
                          /\ \E j \in PlainOf(entries, a) :
                                entries[j] = result[k]
                          /\ \A j \in PlainOf(entries, a) :
                                ~Outranks(entries[j], result[k])

(* What the code does: the result is sorted and holds at most one          *)
(* succeeded entry per action, which no succeeded entry of the input that  *)
(* has no marker and an impact_score of at least 0.3 outranks              *)
C32_AtMostOneSucceededPerAction ==
    \A i \in FilterCallsOf("monitor") :
        LET entries == mlog[i].entries
            result == mlog[i].ret.filtered
        IN /\ NonIncreasing(result)
           /\ \A a \in ActionsOf(entries) :
                 /\ Cardinality(SucceededOf(result, a)) <= 1
                 /\ \A k \in SucceededOf(result, a) :
                       \A j \in SucceededOf(entries, a) :
                          (/\ ~monitor_is_superseded(entries[j])
                           /\ entries[j].impact_score >= RedundantFloorPct)
                             => ~Outranks(entries[j], result[k])

(* A succeeded "no change" entry of impact 0.4 and a plain succeeded entry *)
(* of impact 0.35 of the same action, at different times: nothing is       *)
(* returned                                                                *)
C32_PlainEntryLostToRedundantOne ==
    \E i \in FilterCallsOf("monitor") :
        LET entries == mlog[i].entries
        IN /\ Len(entries) = 2
           /\ entries[1].timestamp # entries[2].timestamp
           /\ \E j \in 1..2 : PlainSucceeded(entries[j])
           /\ \E j \in 1..2 : monitor_is_redundant(entries[j])
           /\ mlog[i].ret.filtered = <<>>
(* The calls of EnhancedMonitor.filter_expired_info on the result of the  *)
(* call before                                                             *)
Refiltered ==
    {i \in FilterCallsOf("monitor") :
        /\ i - 1 \in FilterCallsOf("monitor")
        /\ mlog[i].entries = mlog[i - 1].ret.filtered}

(* C38: EnhancedMonitor.filter_expired_info is idempotent: applied to its  *)
(* own output it returns the same entries in the same order, for every     *)
(* input log.                                                              *)
C38_FilterIdempotent ==
    \A i \in Refiltered : mlog[i].ret.filtered = mlog[i].entries

(* Three entries filtered down to two of equal impact, which changed       *)
(* places with nothing, and filtered once more                             *)
C38_Witness ==
    \E i \in Refiltered :
        /\ Len(mlog[i - 1].entries) = 3
        /\ Len(mlog[i].entries) = 2
        /\ mlog[i].entries[1].impact_score = mlog[i].entries[2].impact_score
        /\ mlog[i].entries[1] # mlog[i].entries[2]
        /\ mlog[i].ret.filtered = mlog[i].entries

(* The first pass dropped and reordered entries *)
C38_WitnessReordered ==
    \E i \in Refiltered :
        /\ Len(mlog[i - 1].entries) = 3
        /\ Len(mlog[i].entries) = 2
        /\ mlog[i].entries[1].timestamp > mlog[i].entries[2].timestamp
        /\ mlog[i].ret.filtered = mlog[i].entries
----------------------------------------------------------------------------
(* SpecBudget: the stored budget after reallocate_budget                   *)

Committed ==
    SumOver(DOMAIN monitor.budget.allocated, monitor.budget.allocated)
        + monitor.budget.safety_reserve

ReducedAgents ==
    {id \in TrackedAgents :
        NotesOf(mlast.ret.adjustments, "Reduced budget", id) = 1}

(* C35: after every reallocate_budget(total), with auto-reduction enabled  *)
(* or disabled and for any number of tracked agents, the stored            *)
(* SwarmBudget is replaced wholesale (total_budget = total, allocated has  *)
(* exactly the tracked agents as keys) and never over-commits: the sum of  *)
(* the values in allocated plus safety_reserve is <= total, and no agent   *)
(* marked for reduction is allocated more than the baseline per_agent.     *)
C35_StoredBudgetNeverOverCommits ==
    Reallocated =>
        /\ monitor.budget.total_budget = mlast.total
        /\ DOMAIN monitor.budget.allocated = TrackedAgents
        /\ Committed <= mlast.total
        /\ \A id \in ReducedAgents :
              monitor.budget.allocated[id] <= mlast.ret.per_agent

(* What the code does: the budget is replaced, and an agent marked for     *)
(* reduction gets the larger of the reduced share and min_per_agent, which *)
(* is more than the baseline share when that is below min_per_agent        *)
C35_ReducedShareHasFloor ==
    Reallocated =>
        /\ monitor.budget.total_budget = mlast.total
        /\ DOMAIN monitor.budget.allocated = TrackedAgents
        /\ \A id \in TrackedAgents \ ReducedAgents :
              monitor.budget.allocated[id] = mlast.ret.per_agent
        /\ \A id \in ReducedAgents :
              /\ monitor.budget.allocated[id] >= monitor0.budget.min_per_agent
              /\ monitor.budget.allocated[id]
                    <= MaxOf(mlast.ret.per_agent,
                             monitor0.budget.min_per_agent)
        /\ ReducedAgents = {} => Committed <= mlast.total

(* A total of 20000 for three agents, one of them reduced to the floor of  *)
(* 10000: more than the total is committed                                 *)
C35_OverCommitted ==
    /\ Reallocated
    /\ mlast.total = 20000
    /\ ReducedAgents # {}
    /\ Committed > mlast.total
----------------------------------------------------------------------------
(* SpecVariance: check_token_variance_alert on a monitor with up to six    *)
(* agents, each with one token sample, after further samples               *)

MaxCallsVariance == 2

AgentsVariance ==
    <<"agent1", "agent2", "agent3", "agent4", "agent5", "agent6">>

TokensVarianceBefore == {0, 21}
TokensVariance == {0, 21, 100}

InitVariance ==
    /\ InitLoopUnused
    /\ mlog = <<>>
    /\ \E n \in 0..Len(AgentsVariance) :
          \E tokens \in [{AgentsVariance[k] : k \in 1..n} -> TokensVarianceBefore] :
             monitor =
                [EnhancedMonitor_new(200000) EXCEPT !.agent_token_history =
                    [a \in DOMAIN tokens |->
                        <<[tokens |-> tokens[a], timestamp |-> 0]>>]]
    /\ monitor0 = monitor

(* The alert is asked for once, after the samples *)
VarianceOpen ==
    /\ Len(mlog) < MaxCallsVariance
    /\ mlast.op # "check_token_variance_alert"

VarianceRecord(agent_id, tokens, overflow_checks) ==
    /\ VarianceOpen
    /\ RecordTokenUsage(agent_id, tokens, Len(mlog) + 1, overflow_checks)

VarianceCheck(order) ==
    /\ VarianceOpen
    /\ CheckTokenVarianceAlert(order)

(* The agents in the order of AgentsVariance *)
InOrder(keys) ==
    LET in_keys(a) == a \in keys
    IN SelectSeq(AgentsVariance, in_keys)

NextVariance ==
    \/ \E k \in 1..Len(AgentsVariance), tokens \in TokensVariance,
          overflow_checks \in BOOLEAN :
          VarianceRecord(AgentsVariance[k], tokens, overflow_checks)
    \/ \E order \in Rotations(InOrder(DOMAIN monitor.agent_token_history))
                      \cup {<<>>} :
          /\ Len(order) = Cardinality(DOMAIN monitor.agent_token_history)
          /\ VarianceCheck(order)

SpecVariance == InitVariance /\ [][NextVariance]_vars

VarianceChecked == mlast.op = "check_token_variance_alert"

AgentsWithTokens == DOMAIN monitor.agent_token_history

(* C37: with the default variance_threshold of 2.0,                        *)
(* check_token_variance_alert returns no alert in every state in which     *)
(* five or fewer agents have token data, whatever their token counts; an   *)
(* alert is only reachable with six or more agents.                        *)
C37_NoVarianceAlertUpToFiveAgents ==
    (VarianceChecked /\ Cardinality(AgentsWithTokens) <= 5) =>
        mlast.ret.alerts = <<>>

(* What the code does: no alert with four or fewer agents, and with five   *)
(* agents an alert only for the one count that differs from four equal     *)
(* ones, which is exactly 2 standard deviations from the mean              *)
C37_NoVarianceAlertUpToFourAgents ==
    VarianceChecked =>
        /\ Cardinality(AgentsWithTokens) <= 4 => mlast.ret.alerts = <<>>
        /\ (Cardinality(AgentsWithTokens) = 5 /\ mlast.ret.alerts # <<>>) =>
              LET variance == get_token_variance(monitor, mlast.order)
                  hit == CHOOSE k \in 1..5 :
                            current_tokens(monitor, mlast.order)[k].agent_id
                                = mlast.ret.alerts[1].agent_id
              IN /\ ~deviations_above_exact(variance, hit, 2)
                 /\ Cardinality({k \in 1..5 :
                        variance.values[k] = variance.values[hit]}) = 1
                 /\ Cardinality({variance.values[k] : k \in 1..5}) = 2

(* Five agents with the latest counts 21, 0, 0, 0, 0: an alert for the     *)
(* first                                                                   *)
C37_AlertWithFiveAgents ==
    /\ VarianceChecked
    /\ Cardinality(AgentsWithTokens) = 5
    /\ get_token_variance(monitor, mlast.order).values = <<21, 0, 0, 0, 0>>
    /\ mlast.ret.alerts # <<>>

(* The same counts iterated in another order: no alert *)
C37_NoAlertWithFiveAgents ==
    /\ VarianceChecked
    /\ Cardinality(AgentsWithTokens) = 5
    /\ get_token_variance(monitor, mlast.order).values = <<0, 0, 0, 0, 21>>
    /\ mlast.ret.alerts = <<>>

C37_AlertWithSixAgents ==
    /\ VarianceChecked
    /\ Cardinality(AgentsWithTokens) = 6
    /\ mlast.ret.alerts # <<>>
----------------------------------------------------------------------------
(* SpecDelta: record_token_usage and check_acceleration_alert on a monitor *)
(* on which agent1 may have reported four samples, in both kinds of build  *)

MaxCallsDelta == 3

AgentsDelta == {"agent1", "agent2"}
TokensDelta == {50, 500, 9000}
TimesDelta == {5, 6}

(* no sample; four rising samples; four samples of which the third is     *)
(* lower than the second (and none lower than the first)                   *)
SamplesDelta == {<<>>, <<100, 200, 300, 400>>, <<100, 300, 200, 400>>}

(* The monitor after agent1 reported these counts at the times 1, 2, ...   *)
RECURSIVE Sampled(_, _)
Sampled(m, samples) ==
    IF samples = <<>> THEN m
    ELSE record_token_usage(
             Sampled(m, SubSeq(samples, 1, Len(samples) - 1)),
             "agent1", samples[Len(samples)], Len(samples), TRUE).monitor

InitDelta ==
    /\ InitLoopUnused
    /\ mlog = <<>>
    /\ \E samples \in SamplesDelta :
          monitor = Sampled(EnhancedMonitor_new(200000), samples)
    /\ monitor0 = monitor

DeltaRecord(agent_id, tokens, ts, overflow_checks) ==
    /\ Len(mlog) < MaxCallsDelta
    /\ RecordTokenUsage(agent_id, tokens, ts, overflow_checks)

DeltaAcceleration(order, overflow_checks, huge) ==
    /\ Len(mlog) < MaxCallsDelta
    /\ CheckAccelerationAlert(order, overflow_checks, huge)

DeltaAlerts(order, overflow_checks, huge) ==
    /\ Len(mlog) < MaxCallsDelta
    /\ GetAllAlerts(order, overflow_checks, huge)

NextDelta ==
    \/ \E agent_id \in AgentsDelta, tokens \in TokensDelta,
          ts \in TimesDelta, overflow_checks \in BOOLEAN :
          DeltaRecord(agent_id, tokens, ts, overflow_checks)
    \/ \E order \in Orders(DOMAIN monitor.agent_token_history),
          overflow_checks \in BOOLEAN, huge \in BOOLEAN :
          DeltaAcceleration(order, overflow_checks, huge)
    \/ \E order \in Orders(DOMAIN monitor.agent_token_history),
          overflow_checks \in BOOLEAN, huge \in BOOLEAN :
          DeltaAlerts(order, overflow_checks, huge)

SpecDelta == InitDelta /\ [][NextDelta]_vars

(* A rate or a velocity was computed from a difference that wrapped around *)
DeltaWrapped ==
    \/ \E i \in 1..Len(mlog) : mlog[i].ret.wrapped
    \/ \E a \in DOMAIN monitor.agent_token_rates :
          monitor.agent_token_rates[a].wrapped

DeltaPanicked == \E i \in 1..Len(mlog) : mlog[i].ret.panic

(* C36: the monitor's token-delta arithmetic never underflows: for any     *)
(* sequence of record_token_usage calls, also one where a later sample has *)
(* fewer tokens than an earlier sample of the same agent, the rate of      *)
(* record_token_usage (last - first over the last <= 10 samples) and the   *)
(* velocities of check_acceleration_alert (consecutive differences over    *)
(* the last 5 samples) are signed differences, computed without an         *)
(* unsigned-subtraction overflow or panic.                                 *)
C36_TokenDeltasNeverUnderflow == ~DeltaPanicked /\ ~DeltaWrapped

(* Some sample of the agent has fewer tokens than an earlier one *)
Decreases(history) ==
    \E i, j \in 1..Len(history) :
        i < j /\ history[j].tokens < history[i].tokens

(* What the code does: the differences are unsigned, and they underflow    *)
(* only when the samples of some agent decrease                            *)
C36_UnderflowOnlyWhenTokensDecrease ==
    (DeltaPanicked \/ DeltaWrapped) =>
        \E a \in DOMAIN monitor.agent_token_history :
            Decreases(monitor.agent_token_history[a])

(* record_token_usage panics on a sample lower than the first *)
C36_RecordPanics ==
    /\ mlast.op = "record_token_usage"
    /\ mlast.ret.panic
    /\ mlast.tokens = 50

(* check_acceleration_alert panics on samples whose rate never underflowed *)
C36_AccelerationPanics ==
    /\ mlast.op = "check_acceleration_alert"
    /\ mlast.ret.panic
    /\ \A i \in 1..Len(mlog) : mlog[i].op = "record_token_usage" =>
          ~mlog[i].ret.panic
    /\ \A a \in DOMAIN monitor.agent_token_rates :
          ~monitor.agent_token_rates[a].wrapped

(* a rising history gives an acceleration alert without any underflow *)
C36_AccelerationAlert ==
    /\ mlast.op = "check_acceleration_alert"
    /\ ~mlast.ret.panic /\ ~mlast.ret.wrapped
    /\ mlast.ret.alerts # <<>>
----------------------------------------------------------------------------
(* SpecRealloc: track_usage, check_imbalance and reallocate_budget on a    *)
(* monitor whose agents have reported turns and one token sample each      *)

MaxCallsRealloc == 4

AgentsRealloc == {"agent1", "agent2"}
ContributionsRealloc == {25, 75}
TotalsRealloc == {20000, 100000}

MonitorsRealloc ==
    {EnhancedMonitor_new(200000),
     with_auto_reduce(200000, TRUE, 20, 30)}

(* nothing tracked; a low and a high contributor; two low contributors of  *)
(* the same contribution                                                   *)
TurnsRealloc ==
    {<<>>,
     <<<<"agent1", 25>>, <<"agent2", 75>>>>,
     <<<<"agent1", 25>>, <<"agent2", 25>>>>}

InitRealloc ==
    /\ InitLoopUnused
    /\ mlog = <<>>
    /\ \E m \in MonitorsRealloc, turns \in TurnsRealloc :
          LET tracked == Tracked(m, turns)
          IN monitor =
                [tracked EXCEPT !.agent_token_history =
                    [a \in DOMAIN tracked.agent_usage_history |->
                        <<[tokens |-> 100, timestamp |-> 0]>>]]
    /\ monitor0 = monitor

ReallocTrack(agent_id, contribution) ==
    /\ Len(mlog) < MaxCallsRealloc
    /\ TrackUsage(agent_id, 100, contribution, 1)

ReallocImbalance(order) ==
    /\ Len(mlog) < MaxCallsRealloc
    /\ CheckImbalance(order)

ReallocBudget(total, order) ==
    /\ Len(mlog) < MaxCallsRealloc
    /\ ReallocateBudget(total, order)

NextRealloc ==
    \/ \E agent_id \in AgentsRealloc, contribution \in ContributionsRealloc :
          ReallocTrack(agent_id, contribution)
    \/ \E order \in Orders(DOMAIN monitor.agent_usage_history) :
          ReallocImbalance(order)
    \/ \E total \in TotalsRealloc,
          order \in Orders(DOMAIN monitor.agent_usage_history) :
          ReallocBudget(total, order)

SpecRealloc == InitRealloc /\ [][NextRealloc]_vars

(* the step is a call of reallocate_budget *)
ReallocStep ==
    /\ Len(mlog') = Len(mlog) + 1
    /\ mlog'[Len(mlog')].op = "reallocate_budget"

(* no track_usage was called after call i of lg *)
NoTrackSince(lg, i) ==
    \A k \in (i + 1)..Len(lg) : lg[k].op # "track_usage"

NoteSet(adjustments) == {adjustments[k] : k \in 1..Len(adjustments)}

(* calls i and j of lg report the same allocation *)
SameAllocation(lg, i, j) ==
    /\ lg[i].ret.per_agent = lg[j].ret.per_agent
    /\ lg[i].ret.safety_reserve = lg[j].ret.safety_reserve
    /\ lg[i].ret.allocated = lg[j].ret.allocated
    /\ NoteSet(lg[i].ret.adjustments) = NoteSet(lg[j].ret.adjustments)

(* C39: reallocate_budget changes only the stored budget: it leaves every  *)
(* agent's usage history, every token history and the turn counter         *)
(* unchanged, so check_imbalance returns the same value immediately before *)
(* and immediately after a reallocation, and calling reallocate_budget     *)
(* twice with the same total and no track_usage in between yields the same *)
(* per_agent, safety_reserve, allocations and set of adjustment notes.     *)
C39_ReallocationChangesOnlyBudget ==
    [][ReallocStep =>
          /\ [monitor' EXCEPT !.budget = monitor.budget] = monitor
          /\ \A order \in Orders(DOMAIN monitor.agent_usage_history) :
                check_imbalance(monitor', order) =
                    check_imbalance(monitor, order)
          /\ \A i \in 1..Len(mlog) :
                /\ mlog[i].op = "reallocate_budget"
                /\ mlog[i].total = mlog'[Len(mlog')].total
                /\ NoTrackSince(mlog, i)
                => SameAllocation(mlog', i, Len(mlog'))]_vars

(* check_imbalance reported an imbalance before and after a reallocation   *)
(* that reduced agent1, and the same reallocation was then repeated        *)
C39_Witness ==
    /\ Len(mlog) = 4
    /\ mlog[1].op = "check_imbalance" /\ mlog[1].ret.flag
    /\ mlog[2].op = "reallocate_budget" /\ mlog[2].total = 100000
    /\ mlog[3].op = "check_imbalance" /\ mlog[3].ret.flag
    /\ mlog[4].op = "reallocate_budget" /\ mlog[4].total = 100000
    /\ Note("Reduced budget", "agent1") \in NoteSet(mlog[4].ret.adjustments)
    /\ Note("High contributor", "agent2") \in NoteSet(mlog[4].ret.adjustments)
    /\ mlog[4].ret.allocated = mlog[2].ret.allocated
    /\ monitor.budget.allocated["agent1"] = 34000
    /\ monitor.budget.allocated["agent2"] = 42500
    /\ monitor.agent_usage_history = monitor0.agent_usage_history
    /\ monitor.agent_token_history = monitor0.agent_token_history
    /\ monitor.turn_counter = monitor0.turn_counter

(* two agents of the same contribution are noted in either order *)
C39_NotesReordered ==
    /\ Len(mlog) = 2
    /\ mlog[1].op = "reallocate_budget"
    /\ mlog[2].op = "reallocate_budget"
    /\ mlog[1].total = mlog[2].total
    /\ Len(mlog[1].ret.adjustments) = 2
    /\ mlog[1].ret.adjustments # mlog[2].ret.adjustments

(* a track_usage between two reallocations of the same total changes the   *)
(* allocation                                                              *)
C39_TrackedBetween ==
    /\ Len(mlog) = 3
    /\ mlog[1].op = "reallocate_budget"
    /\ mlog[2].op = "track_usage"
    /\ mlog[3].op = "reallocate_budget"
    /\ mlog[1].total = mlog[3].total
    /\ mlog[1].ret.allocated # mlog[3].ret.allocated
====
